---- MODULE Spec2Model ----
(***************************************************************************)
(* Model of the dependency-chain analyser, of the version-range evaluator  *)
(* and of the two vulnerability scan tools of motionstream.                *)
(*                                                                         *)
(*   Spec         the recursive tree builder                               *)
(*                DependencyChainTool._build_dependency_tree, run as an    *)
(*                explicit call stack over a package universe that         *)
(*                answers the pkg_resources queries, followed by           *)
(*                _extract_all_packages, the scan of the packages and the  *)
(*                report.                                                  *)
(*   SpecScanner  the pure function is_version_affected applied to         *)
(*                bounded inputs.                                          *)
(*   SpecSeverity the pure function get_severity_from_score applied to     *)
(*                scores in thousandths and to arguments that are no       *)
(*                number.                                                  *)
(*   SpecQuery    ScanPackageTool.forward against an installed set and a   *)
(*                response of the query endpoint.                          *)
(*   SpecBatch    PackageScanTool.forward against the answers of the       *)
(*                latest-version lookups and of the batch endpoint.        *)
(*   SpecFormat   DependencyChainTool._format_results applied to analyses  *)
(*                of up to MaxDependencies packages.                       *)
(*   SpecRerun    two calls of the analyser on the same root, one after    *)
(*                or inside the other, over a universe fixed before.       *)
(***************************************************************************)
EXTENDS Integers, Sequences, FiniteSets, TLC

VARIABLES
    \* ---- version-range evaluator (src/src/utils/scanner.py)
    scan_version,       \* package_version, argument of is_version_affected
    scan_ranges,        \* affected_ranges, argument of is_version_affected
    is_affected,        \* [returned, raised, value]: how the call ended
    \* ---- severity banding (src/src/utils/scanner.py)
    base_score,         \* argument of get_severity_from_score
    severity,           \* [returned, raised, value]: how the call ended
    \* ---- single-package scan (src/src/tools/scan_package.py)
    supplied_version,   \* package_version as the caller passed it, or None
    installed_version,  \* what get_distribution(package_name) answers
    osv_response,       \* [status, vulns]: the answer of the query endpoint
    scan_result,        \* [returned, version, value]: the list forward returned
    \* ---- batch scan (src/src/tools/package_scan.py)
    batch_packages,     \* packages, the argument of forward
    lookups,            \* what the latest-version lookup answers, by position
    batch_response,     \* [status, results]: the answer of the batch endpoint
    posts,              \* history: the bodies of the batch POSTs issued
    batch_result,       \* [returned, raised, value]: how forward ended
    \* ---- tree builder (src/tools/dependency_chain.py)
    root,               \* arguments of the top-level call [name, version]
    installed,          \* answers of get_distribution so far: name -> version
    requires,           \* answers of dist.requires() so far: name -> list
    failures,           \* history: where the environment raised, [package, position]
    visited,            \* the visited set of the running top-level call
    stack,              \* the call stack of _build_dependency_tree frames
    dependency_tree,    \* the dict returned by the top-level call
    all_packages,       \* the dict returned by _extract_all_packages
    pc,                 \* "idle", "building", "built", "extracted", "analysed"
    enumerated,         \* history: the keys dist.requires() was called for
    calls,              \* history: the recursive calls made by the loop
    \* ---- vulnerability analysis and report (src/tools/dependency_chain.py)
    scan_outcomes,      \* what the vulnerability scanner answers: name -> outcome
    scanned,            \* history: the [name, version] the scanner was invoked for
    analysis,           \* the dict returned by _analyze_dependency_chain
    report,             \* what _format_results rendered of it
    \* ---- a second call on the same tool (src/tools/dependency_chain.py)
    second_call,        \* "off", or how far a second call on the same root got
    other_call          \* the other call: its frames while it waits, its results

scannerVars == <<scan_version, scan_ranges, is_affected>>
severityVars == <<base_score, severity>>
queryVars == <<supplied_version, installed_version, osv_response, scan_result>>
batchVars == <<batch_packages, lookups, batch_response, posts, batch_result>>
builderVars == <<root, installed, requires, failures, visited, stack,
                 dependency_tree, all_packages, pc, enumerated, calls>>
analysisVars == <<scan_outcomes, scanned, analysis, report>>
rerunVars == <<second_call, other_call>>
\* the state of the tools that are no part of DependencyChainTool
toolVars == <<scannerVars, severityVars, queryVars, batchVars>>
\* what the tree builder leaves alone, and what the range evaluator does
nonBuilderVars == <<toolVars, analysisVars, rerunVars>>
nonScannerVars ==
    <<severityVars, queryVars, batchVars, builderVars, analysisVars, rerunVars>>
nonSeverityVars ==
    <<scannerVars, queryVars, batchVars, builderVars, analysisVars, rerunVars>>
nonQueryVars ==
    <<scannerVars, severityVars, batchVars, builderVars, analysisVars, rerunVars>>
nonBatchVars ==
    <<scannerVars, severityVars, queryVars, builderVars, analysisVars, rerunVars>>
vars ==
    <<scannerVars, severityVars, queryVars, batchVars, builderVars, analysisVars, rerunVars>>

(***************************************************************************)
(* Bounds.                                                                 *)
(***************************************************************************)
\* longest list of range strings handed to is_version_affected
MaxRanges == 2
\* highest score handed to get_severity_from_score, in thousandths
MaxScore == 10000
\* most records in the vulns list of one query response
MaxVulns == 3
\* most package dictionaries handed to the batch scan
MaxPackages == 2
\* most requirements one distribution declares
MaxReqs == 2
\* most packages of an analysis handed to _format_results on its own
MaxDependencies == 12

(***************************************************************************)
(* Version strings and packaging.version.parse.                            *)
(* A version string is a TLA+ string; parsing maps it to its release       *)
(* tuple or fails.  Comparison is the one of packaging: release tuples are *)
(* compared with trailing zeros stripped, so "1.0" equals "1.0.0".         *)
(***************************************************************************)
NoneValue == "None"

VersionStrings == {"0.9", "1.0", "1.0.0", "1.5", "2.0", "invalid.version"}

\* the release segments packaging reads from the text of a version
ReleaseOf(s) ==
    CASE s = "0.9"   -> <<0, 9>>
      [] s = "1.0"   -> <<1, 0>>
      [] s = "1.0.0" -> <<1, 0, 0>>
      [] s = "1.5"   -> <<1, 5>>
      [] s = "2.0"   -> <<2, 0>>
      [] s = "3.0"   -> <<3, 0>>

ParsableVersions == {"0.9", "1.0", "1.0.0", "1.5", "2.0", "3.0"}

\* version.parse(s) raises InvalidVersion
ParseRaises(s) == s \notin ParsableVersions

RECURSIVE StripTrailingZeros(_)
StripTrailingZeros(r) ==
    IF r # <<>> /\ r[Len(r)] = 0
    THEN StripTrailingZeros(SubSeq(r, 1, Len(r) - 1))
    ELSE r

\* the comparison key of a parsed version
VersionParse(s) == StripTrailingZeros(ReleaseOf(s))

RECURSIVE TupleLess(_, _)
TupleLess(a, b) ==
    IF a = <<>> THEN b # <<>>
    ELSE IF b = <<>> THEN FALSE
    ELSE IF a[1] # b[1] THEN a[1] < b[1]
    ELSE TupleLess(Tail(a), Tail(b))

VersionEq(a, b) == VersionParse(a) = VersionParse(b)
VersionLt(a, b) == TupleLess(VersionParse(a), VersionParse(b))
VersionLe(a, b) == VersionLt(a, b) \/ VersionEq(a, b)

(***************************************************************************)
(* Range strings.  A range string is its leading operator characters       *)
(* followed by the remaining text: ">=1.0" is                              *)
(* [ops |-> <<">", "=">>, text |-> "1.0"].  The empty string has no        *)
(* operator characters and the text "".                                    *)
(***************************************************************************)
RangeString(ops, text) == [ops |-> ops, text |-> text]

EmptyString == RangeString(<<>>, "")

\* constraint_str.startswith(prefix)
StartsWith(c, prefix) ==
    /\ Len(c.ops) >= Len(prefix)
    /\ SubSeq(c.ops, 1, Len(prefix)) = prefix

\* version.parse(constraint_str[n:]) raises
RestRaises(c, n) == Len(c.ops) # n \/ ParseRaises(c.text)

\* One iteration of the loop of is_version_affected over constraint c:
\* "skip" (continue), "raise", "match", "matchbreak" (match, then break), "nomatch".
CheckConstraint(current, c) ==
    IF c = EmptyString THEN "skip"
    ELSE IF StartsWith(c, <<"=", "=">>) THEN
        IF RestRaises(c, 2) THEN "raise"
        ELSE IF VersionEq(current, c.text) THEN "matchbreak" ELSE "nomatch"
    ELSE IF StartsWith(c, <<"!", "=">>) THEN
        IF RestRaises(c, 2) THEN "raise"
        ELSE IF ~VersionEq(current, c.text) THEN "match" ELSE "nomatch"
    ELSE IF StartsWith(c, <<">", "=">>) THEN
        IF RestRaises(c, 2) THEN "raise"
        ELSE IF VersionLe(c.text, current) THEN "match" ELSE "nomatch"
    ELSE IF StartsWith(c, <<"<", "=">>) THEN
        IF RestRaises(c, 2) THEN "raise"
        ELSE IF VersionLe(current, c.text) THEN "match" ELSE "nomatch"
    ELSE IF StartsWith(c, <<">">>) THEN
        IF RestRaises(c, 1) THEN "raise"
        ELSE IF VersionLt(c.text, current) THEN "match" ELSE "nomatch"
    ELSE IF StartsWith(c, <<"<">>) THEN
        IF RestRaises(c, 1) THEN "raise"
        ELSE IF VersionLt(current, c.text) THEN "match" ELSE "nomatch"
    ELSE
        IF RestRaises(c, 0) THEN "raise"
        ELSE IF VersionEq(c.text, current) THEN "matchbreak" ELSE "nomatch"

\* a mutation: each constraint assigns the flag, so the last one decides
RECURSIVE RangeLoopLastWins(_, _, _, _)
RangeLoopLastWins(current, ranges, i, flag) ==
    IF i > Len(ranges) THEN (IF flag THEN "true" ELSE "false")
    ELSE LET step == CheckConstraint(current, ranges[i]) IN
         CASE step = "raise"      -> "raise"
           [] step = "matchbreak" -> "true"
           [] step = "match"      -> RangeLoopLastWins(current, ranges, i + 1, TRUE)
           [] step = "nomatch"    -> RangeLoopLastWins(current, ranges, i + 1, FALSE)
           [] OTHER               -> RangeLoopLastWins(current, ranges, i + 1, flag)

\* The for loop from position i on, with the flag so far: "raise" or the
\* boolean the loop leaves in is_affected.
RECURSIVE RangeLoop(_, _, _, _)
RangeLoop(current, ranges, i, flag) ==
    IF i > Len(ranges) THEN (IF flag THEN "true" ELSE "false")
    ELSE LET step == CheckConstraint(current, ranges[i]) IN
         CASE step = "raise"      -> "raise"
           [] step = "matchbreak" -> "true"
           [] step = "match"      -> RangeLoop(current, ranges, i + 1, TRUE)
           [] OTHER               -> RangeLoop(current, ranges, i + 1, flag)

\* the body of the try block: parse the package version, then loop
TryBlock(version, ranges) ==
    IF ParseRaises(version) THEN "raise"
    ELSE RangeLoop(version, ranges, 1, FALSE)

\* a mutation: the version is parsed before the empty list is looked at
IsVersionAffectedParseFirst(version, ranges) ==
    IF TryBlock(version, ranges) = "raise" THEN FALSE
    ELSE IF ranges = <<>> THEN TRUE
    ELSE TryBlock(version, ranges) = "true"

\* a mutation: the constraints of the list are combined by conjunction
IsVersionAffectedConjunction(version, ranges) ==
    IF ranges = <<>> THEN TRUE
    ELSE IF TryBlock(version, ranges) = "raise" THEN FALSE
    ELSE \A i \in 1..Len(ranges) :
            CheckConstraint(version, ranges[i]) \in {"match", "matchbreak"}

\* a mutation: no except clause, what the try block raises leaves the call
ExceptHandlerAbsent(outcome) == outcome

\* except Exception: print and return False
ExceptHandler(outcome) == IF outcome = "raise" THEN "false" ELSE outcome

\* is_version_affected(package_version, affected_ranges)
IsVersionAffected(version, ranges) ==
    IF ranges = <<>> THEN TRUE
    ELSE ExceptHandler(TryBlock(version, ranges)) = "true"

\* the call is left by an exception instead of a return
IsVersionAffectedRaises(version, ranges) ==
    ranges # <<>> /\ ExceptHandler(TryBlock(version, ranges)) = "raise"

(***************************************************************************)
(* The inputs of the evaluator.                                            *)
(***************************************************************************)
OperatorPrefixes ==
    {<<>>, <<"=", "=">>, <<"!", "=">>, <<">", "=">>, <<"<", "=">>, <<">">>, <<"<">>}

RangeTexts == {"1.0", "1.0.0", "2.0"}

\* range strings in the form the spec calls well-formed
WellFormedRanges == {RangeString(o, t) : o \in OperatorPrefixes, t \in RangeTexts}

\* range strings the parser rejects, and the empty string
OtherRanges == {EmptyString, RangeString(<<"=">>, "1.0"), RangeString(<<">">>, "invalid.version")}

RangeStrings == WellFormedRanges \cup OtherRanges

RangeLists == UNION {[1..n -> RangeStrings] : n \in 0..MaxRanges}

ScannerInit ==
    /\ scan_version \in VersionStrings
    /\ scan_ranges \in RangeLists
    /\ is_affected = [returned |-> FALSE, raised |-> FALSE, value |-> FALSE]

\* the call is_version_affected(scan_version, scan_ranges)
CallIsVersionAffected ==
    /\ ~is_affected.returned
    /\ is_affected' = [returned |-> TRUE,
                       raised |-> IsVersionAffectedRaises(scan_version, scan_ranges),
                       value |-> IsVersionAffected(scan_version, scan_ranges)]
    /\ UNCHANGED <<scan_version, scan_ranges, nonScannerVars>>

(***************************************************************************)
(* get_severity_from_score.  A score is held in thousandths, so 8.999 is   *)
(* 8999 and the thresholds 9.0, 7.0, 4.0 and 0.0 are 9000, 7000, 4000 and  *)
(* 0.  An argument is a float, the float nan, a string or None; float()    *)
(* converts it or raises.                                                  *)
(***************************************************************************)
CriticalThreshold == 9000
HighThreshold == 7000
MediumThreshold == 4000
LowThreshold == 0

Score(kind, milli, text) == [kind |-> kind, milli |-> milli, text |-> text]

\* the text of a string that float() reads as a number, in thousandths
NumberStrings == {"9.5", "0.0"}
ReadNumber(text) == IF text = "9.5" THEN 9500 ELSE 0

\* float(base_score): the number, nan, or the exception raised
Float(x) ==
    CASE x.kind = "float"  -> [exc |-> "no", nan |-> FALSE, milli |-> x.milli]
      [] x.kind = "nan"    -> [exc |-> "no", nan |-> TRUE, milli |-> 0]
      [] x.kind = "str" /\ x.text \in NumberStrings
                           -> [exc |-> "no", nan |-> FALSE, milli |-> ReadNumber(x.text)]
      [] x.kind = "str" /\ x.text \notin NumberStrings
                           -> [exc |-> "ValueError", nan |-> FALSE, milli |-> 0]
      [] x.kind = "None"   -> [exc |-> "TypeError", nan |-> FALSE, milli |-> 0]

\* score >= t and score > t on floats: false when score is nan
FloatGe(f, t) == ~f.nan /\ f.milli >= t
FloatGt(f, t) == ~f.nan /\ f.milli > t

\* the if chain of the try block
Band(f) ==
    IF FloatGe(f, CriticalThreshold) THEN "CRITICAL"
    ELSE IF FloatGe(f, HighThreshold) THEN "HIGH"
    ELSE IF FloatGe(f, MediumThreshold) THEN "MEDIUM"
    ELSE IF FloatGt(f, LowThreshold) THEN "LOW"
    ELSE "UNKNOWN"

\* a mutation: the except clause names ValueError alone
SeverityCaughtValueErrorOnly(exc) == exc = "ValueError"

\* except (ValueError, TypeError)
SeverityCaught(exc) == exc \in {"ValueError", "TypeError"}

\* get_severity_from_score(base_score): [raised, value]
GetSeverityFromScore(x) ==
    LET f == Float(x) IN
    IF f.exc = "no" THEN [raised |-> FALSE, value |-> Band(f)]
    ELSE IF SeverityCaught(f.exc) THEN [raised |-> FALSE, value |-> "UNKNOWN"]
    ELSE [raised |-> TRUE, value |-> NoneValue]

\* the arguments: every score from -1.0 to MaxScore in steps of 0.001, nan,
\* strings and None
ScoreArguments ==
    {Score("float", m, "") : m \in (-1000)..MaxScore}
    \cup {Score("nan", 0, ""), Score("None", 0, "")}
    \cup {Score("str", 0, t) : t \in NumberStrings \cup {"invalid", ""}}

SeverityInit ==
    /\ base_score \in ScoreArguments
    /\ severity = [returned |-> FALSE, raised |-> FALSE, value |-> NoneValue]

\* the call get_severity_from_score(base_score)
CallGetSeverityFromScore ==
    /\ ~severity.returned
    /\ severity' = [returned |-> TRUE,
                    raised |-> GetSeverityFromScore(base_score).raised,
                    value |-> GetSeverityFromScore(base_score).value]
    /\ UNCHANGED <<base_score, nonSeverityVars>>

(***************************************************************************)
(* Python dicts.  A dict is the sequence of its items in insertion order,  *)
(* each [key, val]; assignment to an existing key keeps its position.      *)
(***************************************************************************)
EmptyDict == <<>>

DictKeys(d) == {d[i].key : i \in DOMAIN d}

DictGet(d, k) == d[CHOOSE i \in DOMAIN d : d[i].key = k].val

\* d[k] = v
DictSet(d, k, v) ==
    IF k \in DictKeys(d)
    THEN [i \in DOMAIN d |-> IF d[i].key = k THEN [key |-> k, val |-> v] ELSE d[i]]
    ELSE Append(d, [key |-> k, val |-> v])

(***************************************************************************)
(* The package universe: what pkg_resources answers.  An answer is chosen  *)
(* when a distribution is first asked for and stays the same afterwards.   *)
(***************************************************************************)
Pkgs == {"A", "B", "C"}

\* the package the analysis is asked for
RootNames == {"A"}

\* the working set holds one version of a project
InstalledVersions == {"1.0"}

\* the versions a caller asks for, None for "the installed one"
RequestedVersions == {NoneValue, "1.0", "2.0"}

Unasked == "unasked"
Missing == "missing"

\* req.specs of the requirement the distribution of requirer declares on
\* name, [(op, version), ...]: none on A, a range on B, a pin on C that the
\* installed version meets except in the metadata of A
SpecsOn(requirer, name) ==
    CASE name = "A" -> <<>>
      [] name = "B" -> <<[op |-> ">=", ver |-> "1.0"], [op |-> "<", ver |-> "2.0"]>>
      [] name = "C" -> IF requirer = "A"
                       THEN <<[op |-> "==", ver |-> "2.0"]>>
                       ELSE <<[op |-> "==", ver |-> "1.0.0"]>>

Requirement(requirer, name) == [name |-> name, specs |-> SpecsOn(requirer, name)]

\* the lists dist.requires() can return: distinct packages, at most MaxReqs
RequirementLists(requirer) ==
    {l \in UNION {[1..n -> {Requirement(requirer, q) : q \in Pkgs}] : n \in 0..MaxReqs} :
        \A i, j \in DOMAIN l : i # j => l[i].name # l[j].name}

\* the list dist.requires() returns for the named requirements
Reqs(requirer, names) == [i \in DOMAIN names |-> Requirement(requirer, names[i])]

\* pkg_resources.get_distribution(name): the version, or Missing for
\* DistributionNotFound
GetDistribution(name) ==
    IF installed[name] = Unasked THEN InstalledVersions \cup {Missing}
    ELSE {installed[name]}

\* dist.requires() of the installed distribution of name
DistRequires(name) ==
    IF ~requires[name].asked THEN RequirementLists(name)
    ELSE {requires[name].reqs}

(***************************************************************************)
(* _compare_versions                                                       *)
(***************************************************************************)
CompareVersions(version_str, operator, spec_version) ==
    IF ParseRaises(version_str) \/ ParseRaises(spec_version) THEN FALSE
    ELSE CASE operator = "==" -> VersionEq(version_str, spec_version)
           [] operator = "!=" -> ~VersionEq(version_str, spec_version)
           [] operator = ">"  -> VersionLt(spec_version, version_str)
           [] operator = ">=" -> VersionLe(spec_version, version_str)
           [] operator = "<"  -> VersionLt(version_str, spec_version)
           [] operator = "<=" -> VersionLe(version_str, spec_version)
           [] OTHER           -> FALSE

\* version_match: True without specs, else all(...) over the specs
VersionMatch(req_version, req_specs) ==
    \A k \in DOMAIN req_specs :
        CompareVersions(req_version, req_specs[k].op, req_specs[k].ver)

\* req_version_str: the version, marked when the specs are not met
MismatchString(req_version, req_specs) ==
    [version |-> req_version, mismatch |-> req_specs]

ReqVersionStr(req_version, req_specs) ==
    IF VersionMatch(req_version, req_specs)
    THEN [version |-> req_version, mismatch |-> <<>>]
    ELSE MismatchString(req_version, req_specs)

(***************************************************************************)
(* The dicts _build_dependency_tree builds.                                *)
(***************************************************************************)
\* package_key = f"{package_name}=={package_version}"
PackageKey(package_name, package_version) == <<package_name, package_version>>

\* {package_name: {'version', 'dependencies', 'path'}}
PackageNode(package_name, package_version, dependencies, path) ==
    <<[key |-> package_name,
       val |-> [version |-> package_version, dependencies |-> dependencies,
                path |-> path]]>>

\* the return of the except DistributionNotFound branch
NotFoundNode(package_name, package_version, path) ==
    PackageNode(package_name,
                IF package_version # NoneValue THEN package_version ELSE "unknown",
                EmptyDict, path)

\* the value stored under dependencies[req_name] after the recursive call
DependencyEntry(req_version, req_version_str, sub_dependencies, new_path, req_specs) ==
    [version |-> req_version, dependencies |-> sub_dependencies,
     path |-> new_path, specs |-> req_specs]

\* a mutation: a missing dependency is given the version of a missing root
NotInstalledEntryUnknown(new_path, req_specs) ==
    [version |-> "unknown", dependencies |-> EmptyDict,
     path |-> new_path, specs |-> req_specs]

\* the value stored under dependencies[req_name] for a missing dependency
NotInstalledEntry(new_path, req_specs) ==
    [version |-> "Not installed", dependencies |-> EmptyDict,
     path |-> new_path, specs |-> req_specs]

\* the value stored under dependencies['ERROR']
ErrorEntry(message, path) == [message |-> message, path |-> path]

(***************************************************************************)
(* _build_dependency_tree as a call stack.  A frame is one activation:     *)
(* its arguments, the requirements it iterates over, the position of the   *)
(* loop and the dependencies dict it fills; phase is where it stands:      *)
(*   "enter"      before the distribution is looked up                     *)
(*   "enumerate"  marked visited, before dist.requires()                   *)
(*   "loop"       inside the for loop, at requirement i                    *)
(*   "return"     at a return statement, ret being the value returned      *)
(***************************************************************************)
Frame(package_name, package_version, path) ==
    [package_name |-> package_name, package_version |-> package_version,
     path |-> path, phase |-> "enter", reqs |-> <<>>, i |-> 1,
     dependencies |-> EmptyDict, ret |-> EmptyDict]

Top == stack[Len(stack)]

SetTop(f) == [stack EXCEPT ![Len(stack)] = f]

Returning(f, value) == [f EXCEPT !.phase = "return", !.ret = value]

\* the universe is fixed before the first call (when second calls are
\* looked at) instead of being chosen as the calls ask
FixedUniverse == second_call # "off"

\* the environment raises at most once inside one top-level call; in a
\* fixed universe it raises at the places fixed with it, for every call
MayRaise(package, position) ==
    IF FixedUniverse
    THEN [package |-> package, position |-> position] \in failures
    ELSE failures = {}

MayPass(package, position) ==
    FixedUniverse => [package |-> package, position |-> position] \notin failures

\* a mutation: the set of an earlier call is used again (a mutable default)
OwnVisitedShared(previous) == previous

\* visited is None in a top-level call: the call makes its own empty set
OwnVisited(previous) == {}

BuilderInit ==
    /\ root = [name |-> NoneValue, version |-> NoneValue]
    /\ installed = [p \in Pkgs |-> Unasked]
    /\ requires = [p \in Pkgs |-> [asked |-> FALSE, reqs |-> <<>>]]
    /\ failures = {}
    /\ visited = {}
    /\ stack = <<>>
    /\ dependency_tree = EmptyDict
    /\ all_packages = EmptyDict
    /\ pc = "idle"
    /\ enumerated = <<>>
    /\ calls = {}

\* the call _build_dependency_tree(package_name, package_version) made by
\* _analyze_dependency_chain: visited and path are None, so the call makes
\* its own empty set and empty list
TopLevelCall ==
    /\ pc = "idle"
    /\ \E package_name \in RootNames, package_version \in RequestedVersions :
          /\ root' = [name |-> package_name, version |-> package_version]
          /\ stack' = <<Frame(package_name, package_version, <<>>)>>
    /\ visited' = OwnVisited(visited)
    /\ pc' = "building"
    /\ UNCHANGED <<nonBuilderVars, installed, requires, failures, dependency_tree,
                   all_packages, enumerated, calls>>

\* a mutation: only the packages on the active path count as visited
CheckVisitedOnPath(f, dist_version) ==
    LET package_key == PackageKey(f.package_name, dist_version) IN
    IF package_key \in visited /\ \E k \in DOMAIN f.path : f.path[k] = f.package_name
    THEN /\ stack' = SetTop(Returning(f, EmptyDict))
         /\ UNCHANGED visited
    ELSE /\ visited' = visited \cup {package_key}
         /\ stack' = SetTop([f EXCEPT !.package_version = dist_version,
                                      !.phase = "enumerate"])

\* the visited test of an activation whose distribution is dist_version
CheckVisited(f, dist_version) ==
    LET package_key == PackageKey(f.package_name, dist_version) IN
    IF package_key \in visited
    THEN /\ stack' = SetTop(Returning(f, EmptyDict))
         /\ UNCHANGED visited
    ELSE /\ visited' = visited \cup {package_key}
         /\ stack' = SetTop([f EXCEPT !.package_version = dist_version,
                                      !.phase = "enumerate"])

\* a mutation: only a package that is not installed counts as different
HasDifferentVersionOnlyMissing(package_version, dist_version) ==
    dist_version = Missing

\* has_different_version, for a call that names a version: the package is
\* not installed (the bare except), or it is installed in another version
HasDifferentVersion(package_version, dist_version) ==
    dist_version = Missing \/ dist_version # package_version

\* from the entry of an activation to the line that marks the key visited
Enter ==
    /\ pc = "building"
    /\ Top.phase = "enter"
    /\ LET f == Top IN
       \E dist_version \in GetDistribution(f.package_name) :
          /\ installed' = [installed EXCEPT ![f.package_name] = dist_version]
          /\ IF f.package_version # NoneValue
             THEN IF HasDifferentVersion(f.package_version, dist_version)
                  THEN /\ stack' = SetTop(Returning(f,
                              PackageNode(f.package_name, f.package_version,
                                          EmptyDict, f.path)))
                       /\ UNCHANGED visited
                  ELSE CheckVisited(f, f.package_version)
             ELSE IF dist_version = Missing
                  THEN /\ stack' = SetTop(Returning(f,
                              NotFoundNode(f.package_name, f.package_version, f.path)))
                       /\ UNCHANGED visited
                  ELSE CheckVisited(f, dist_version)
    /\ UNCHANGED <<nonBuilderVars, root, requires, failures, dependency_tree,
                   all_packages, pc,
                   enumerated, calls>>

\* the except Exception handler: the ERROR child, then the final return
HandleError(f, message) ==
    Returning(f, PackageNode(f.package_name, f.package_version,
                             DictSet(f.dependencies, "ERROR", ErrorEntry(message, f.path)),
                             f.path))

\* dist.requires(): the list of requirements, or an exception
Enumerate ==
    /\ pc = "building"
    /\ Top.phase = "enumerate"
    /\ LET f == Top IN
       /\ enumerated' = Append(enumerated, PackageKey(f.package_name, f.package_version))
       /\ \/ \E reqs \in DistRequires(f.package_name) :
                /\ MayPass(f.package_name, 0)
                /\ requires' = [requires EXCEPT
                                    ![f.package_name] = [asked |-> TRUE, reqs |-> reqs]]
                /\ stack' = SetTop([f EXCEPT !.phase = "loop", !.reqs = reqs, !.i = 1])
                /\ UNCHANGED failures
          \/ /\ MayRaise(f.package_name, 0)
             /\ failures' = failures \cup {[package |-> f.package_name, position |-> 0]}
             /\ stack' = SetTop(HandleError(f, "requires"))
             /\ UNCHANGED requires
    /\ UNCHANGED <<nonBuilderVars, root, installed, visited, dependency_tree,
                   all_packages, pc, calls>>

\* one iteration of the for loop up to the recursive call: the dependency
\* is missing (inner handler), or it is installed and the call is made
ProcessRequirement ==
    /\ pc = "building"
    /\ Top.phase = "loop"
    /\ Top.i <= Len(Top.reqs)
    /\ MayPass(Top.package_name, Top.i)
    /\ LET f == Top
           req == f.reqs[f.i]
           new_path == Append(f.path, f.package_name) IN
       \E req_version \in GetDistribution(req.name) :
          /\ installed' = [installed EXCEPT ![req.name] = req_version]
          /\ IF req_version = Missing
             THEN /\ stack' = SetTop([f EXCEPT
                         !.dependencies = DictSet(f.dependencies, req.name,
                                              NotInstalledEntry(new_path, req.specs)),
                         !.i = f.i + 1])
                  /\ UNCHANGED calls
             ELSE /\ stack' = Append(stack, Frame(req.name, req_version, new_path))
                  /\ calls' = calls \cup
                        {[parent |-> f.package_name, name |-> req.name,
                          version |-> req_version, path |-> new_path,
                          match |-> VersionMatch(req_version, req.specs)]}
    /\ UNCHANGED <<nonBuilderVars, root, requires, failures, visited, dependency_tree, all_packages,
                   pc, enumerated>>

\* an iteration of the for loop raises something the inner handler does
\* not catch: the outer handler ends the loop
RequirementRaises ==
    /\ pc = "building"
    /\ Top.phase = "loop"
    /\ Top.i <= Len(Top.reqs)
    /\ MayRaise(Top.package_name, Top.i)
    /\ failures' = failures \cup {[package |-> Top.package_name, position |-> Top.i]}
    /\ stack' = SetTop(HandleError(Top, "requirement"))
    /\ UNCHANGED <<nonBuilderVars, root, installed, requires, visited, dependency_tree, all_packages,
                   pc, enumerated, calls>>

\* the for loop is exhausted: the final return statement
LoopEnd ==
    /\ pc = "building"
    /\ Top.phase = "loop"
    /\ Top.i > Len(Top.reqs)
    /\ stack' = SetTop(Returning(Top,
                   PackageNode(Top.package_name, Top.package_version,
                               Top.dependencies, Top.path)))
    /\ UNCHANGED <<nonBuilderVars, root, installed, requires, failures, visited, dependency_tree,
                   all_packages, pc, enumerated, calls>>

\* a recursive call returns into the loop of its caller, which stores the
\* entry of the requirement and goes on to the next requirement
ReturnToCaller ==
    /\ pc = "building"
    /\ Len(stack) > 1
    /\ Top.phase = "return"
    /\ LET sub_dependencies == Top.ret
           f == stack[Len(stack) - 1]
           req == f.reqs[f.i]
           req_version == Top.package_version
           new_path == Append(f.path, f.package_name)
           g == [f EXCEPT
                   !.dependencies = DictSet(f.dependencies, req.name,
                        DependencyEntry(req_version, ReqVersionStr(req_version, req.specs),
                                        sub_dependencies, new_path, req.specs)),
                   !.i = f.i + 1] IN
       stack' = Append(SubSeq(stack, 1, Len(stack) - 2), g)
    /\ UNCHANGED <<nonBuilderVars, root, installed, requires, failures, visited, dependency_tree,
                   all_packages, pc, enumerated, calls>>

\* the top-level call returns to _analyze_dependency_chain
ReturnToTop ==
    /\ pc = "building"
    /\ Len(stack) = 1
    /\ Top.phase = "return"
    /\ second_call # "nested"
    /\ dependency_tree' = Top.ret
    /\ stack' = <<>>
    /\ pc' = "built"
    /\ UNCHANGED <<nonBuilderVars, root, installed, requires, failures, visited, all_packages,
                   enumerated, calls>>

(***************************************************************************)
(* _extract_all_packages                                                   *)
(***************************************************************************)
\* extract_recursively(tree), all_packages being the dict filled so far
RECURSIVE ExtractRecursively(_, _)
ExtractRecursively(tree, packages) ==
    IF tree = EmptyDict THEN packages
    ELSE LET pkg_name == Head(tree).key
             pkg_info == Head(tree).val
             stored == DictSet(packages, pkg_name,
                               [version |-> pkg_info.version, path |-> pkg_info.path])
             after ==
                IF pkg_name = "ERROR" THEN packages
                ELSE IF "dependencies" \in DOMAIN pkg_info
                        /\ pkg_info.dependencies # EmptyDict
                     THEN ExtractRecursively(pkg_info.dependencies, stored)
                     ELSE stored
         IN ExtractRecursively(Tail(tree), after)

ExtractAllPackages(tree) == ExtractRecursively(tree, EmptyDict)

\* _analyze_dependency_chain, after the tree is built: the tree is not
\* empty, so all_packages is extracted
Extract ==
    /\ pc = "built"
    /\ dependency_tree # EmptyDict
    /\ all_packages' = ExtractAllPackages(dependency_tree)
    /\ pc' = "extracted"
    /\ UNCHANGED <<nonBuilderVars, root, installed, requires, failures, visited, stack,
                   dependency_tree, enumerated, calls>>

(***************************************************************************)
(* _analyze_dependency_chain after the extraction.  The vulnerability      *)
(* scanner is a collaborator of the tool: asked for a package and a        *)
(* version it returns a list of records or raises.  The record at place k  *)
(* of the answer for a package names the package and k.                    *)
(***************************************************************************)
FoundVulnerability(name, k) == [id |-> <<"id", name, k>>, severity |-> "HIGH"]

\* the outcomes of one lookup
Clean == [raised |-> FALSE, vulnerabilities |-> <<>>]
Found(name, n) ==
    [raised |-> FALSE, vulnerabilities |-> [k \in 1..n |-> FoundVulnerability(name, k)]]
LookupRaises == [raised |-> TRUE, vulnerabilities |-> <<>>]

\* the scanners an analysis is run against: one with a finding for B only,
\* one with findings for A and C that fails for B, one that fails for A and
\* C and has nothing on B
ScanScenarios ==
    {[p \in Pkgs |-> IF p = "B" THEN Found(p, 1) ELSE Clean],
     [p \in Pkgs |-> CASE p = "A" -> Found(p, 2)
                       [] p = "B" -> LookupRaises
                       [] OTHER   -> Found(p, 1)],
     [p \in Pkgs |-> IF p = "B" THEN Clean ELSE LookupRaises]}

\* a mutation: the scanner is asked whatever the version string says
ScanPackageVulnerabilitiesAlways(package_name, package_version, outcome) ==
    IF outcome.raised
    THEN [invoked |-> TRUE, value |-> <<>>]
    ELSE [invoked |-> TRUE, value |-> outcome.vulnerabilities]

\* _scan_package_vulnerabilities(package_name, package_version), outcome
\* being what the scanner does when it is asked: the list returned, and
\* whether the scanner was invoked
ScanPackageVulnerabilities(package_name, package_version, outcome) ==
    IF package_version = "Not installed" \/ package_version = "unknown"
    THEN [invoked |-> FALSE, value |-> <<>>]
    ELSE IF outcome.raised
         THEN [invoked |-> TRUE, value |-> <<>>]
         ELSE [invoked |-> TRUE, value |-> outcome.vulnerabilities]

\* vulnerable_dependencies[pkg_name]
VulnerableEntry(pkg_info, vulnerabilities) ==
    [version |-> pkg_info.version,
     vulnerabilities |-> vulnerabilities,
     path |-> pkg_info.path,
     vulnerability_count |-> Len(vulnerabilities)]

\* before the loop: no vulnerable dependency, count 0, scanner not asked
LoopStart ==
    [vulnerable_dependencies |-> EmptyDict, vulnerability_count |-> 0, scanned |-> <<>>]

\* a mutation: the count grows by one for each vulnerable package
RECURSIVE ScanLoopCountingPackages(_, _, _)
ScanLoopCountingPackages(items, outcomes, acc) ==
    IF items = <<>> THEN acc
    ELSE LET pkg_name == Head(items).key
             pkg_info == Head(items).val
             r == ScanPackageVulnerabilities(pkg_name, pkg_info.version, outcomes[pkg_name])
             vulnerabilities == r.value
             asked == IF r.invoked
                      THEN Append(acc.scanned, [name |-> pkg_name, version |-> pkg_info.version])
                      ELSE acc.scanned
         IN ScanLoopCountingPackages(Tail(items), outcomes,
                IF vulnerabilities # <<>>
                THEN [vulnerable_dependencies |->
                          DictSet(acc.vulnerable_dependencies, pkg_name,
                                  VulnerableEntry(pkg_info, vulnerabilities)),
                      vulnerability_count |-> acc.vulnerability_count + 1,
                      scanned |-> asked]
                ELSE [acc EXCEPT !.scanned = asked])

\* the loop over all_packages.items(), items being what is left of it
RECURSIVE ScanLoop(_, _, _)
ScanLoop(items, outcomes, acc) ==
    IF items = <<>> THEN acc
    ELSE LET pkg_name == Head(items).key
             pkg_info == Head(items).val
             r == ScanPackageVulnerabilities(pkg_name, pkg_info.version, outcomes[pkg_name])
             vulnerabilities == r.value
             asked == IF r.invoked
                      THEN Append(acc.scanned, [name |-> pkg_name, version |-> pkg_info.version])
                      ELSE acc.scanned
         IN ScanLoop(Tail(items), outcomes,
                IF vulnerabilities # <<>>
                THEN [vulnerable_dependencies |->
                          DictSet(acc.vulnerable_dependencies, pkg_name,
                                  VulnerableEntry(pkg_info, vulnerabilities)),
                      vulnerability_count |-> acc.vulnerability_count + Len(vulnerabilities),
                      scanned |-> asked]
                ELSE [acc EXCEPT !.scanned = asked])

\* a mutation: the analysed package itself is not counted
AnalysisResultWithoutRoot(tree, pkgs, vulnerable_dependencies, vulnerability_count) ==
    [dependency_tree |-> tree,
     all_packages |-> pkgs,
     vulnerable_dependencies |-> vulnerable_dependencies,
     total_dependencies |-> Len(pkgs) - 1,
     vulnerable_dependency_count |-> Len(vulnerable_dependencies),
     total_vulnerability_count |-> vulnerability_count]

\* the dict returned at the end (the visualization is left out)
AnalysisResult(tree, pkgs, vulnerable_dependencies, vulnerability_count) ==
    [dependency_tree |-> tree,
     all_packages |-> pkgs,
     vulnerable_dependencies |-> vulnerable_dependencies,
     total_dependencies |-> Len(pkgs),
     vulnerable_dependency_count |-> Len(vulnerable_dependencies),
     total_vulnerability_count |-> vulnerability_count]

\* the dict returned when no tree could be built
ErrorAnalysis(package_name) ==
    [error |-> <<"Could not build dependency tree for", package_name>>,
     dependency_tree |-> EmptyDict,
     vulnerable_dependencies |-> EmptyDict]

\* the scan of every package of all_packages and the result dict
ScanPackages ==
    /\ pc = "extracted"
    /\ \E outcomes \in ScanScenarios :
          LET acc == ScanLoop(all_packages, outcomes, LoopStart) IN
          /\ DOMAIN scan_outcomes # {} => outcomes = scan_outcomes
          /\ scan_outcomes' = outcomes
          /\ scanned' = acc.scanned
          /\ analysis' = AnalysisResult(dependency_tree, all_packages,
                                        acc.vulnerable_dependencies,
                                        acc.vulnerability_count)
    /\ pc' = "analysed"
    /\ UNCHANGED <<toolVars, rerunVars, root, installed, requires, failures, visited,
                   stack, dependency_tree, all_packages, enumerated, calls, report>>

(***************************************************************************)
(* _format_results.  Of the text it renders the model keeps the summary    *)
(* numbers, the status line and, for each vulnerable dependency, the       *)
(* heading, the dependency path and the count.  The quotient of the two    *)
(* counts is compared with 0.1 and 0.3 in integers: for counts this small  *)
(* the float quotient is on the same side of the float literal as the      *)
(* exact quotient is of the decimal.                                       *)
(***************************************************************************)
\* a mutation: the quotient is taken without the test for zero before it
RiskStatusWithoutZeroTest(total_deps, vulnerable_deps) ==
    IF total_deps = 0 THEN "ZeroDivisionError"
    ELSE IF 10 * vulnerable_deps <= total_deps THEN "low"
    ELSE IF 10 * vulnerable_deps <= 3 * total_deps THEN "medium"
    ELSE "high"

\* the risk assessment: the status line, or the exception of the division
RiskStatus(total_deps, vulnerable_deps) ==
    IF vulnerable_deps = 0 THEN "secure"
    ELSE IF total_deps = 0 THEN "ZeroDivisionError"
    ELSE IF 10 * vulnerable_deps <= total_deps THEN "low"
    ELSE IF 10 * vulnerable_deps <= 3 * total_deps THEN "medium"
    ELSE "high"

\* the section of one vulnerable dependency
VulnerableSection(pkg_name, vuln_info) ==
    [name |-> pkg_name,
     version |-> vuln_info.version,
     dependency_path |-> Append(vuln_info.path, pkg_name),
     found |-> vuln_info.vulnerability_count]

\* _format_results(package_name, package_version, analysis)
FormatResults(an) ==
    IF "error" \in DOMAIN an THEN [kind |-> "error", text |-> an.error]
    ELSE LET total_deps == an.total_dependencies
             vulnerable_deps == an.vulnerable_dependency_count
             status == RiskStatus(total_deps, vulnerable_deps) IN
         IF status = "ZeroDivisionError"
         THEN [kind |-> "raised", text |-> status]
         ELSE [kind |-> "report",
               total_deps |-> total_deps,
               vulnerable_deps |-> vulnerable_deps,
               total_vulns |-> an.total_vulnerability_count,
               status |-> status,
               sections |-> [i \in DOMAIN an.vulnerable_dependencies |->
                                VulnerableSection(an.vulnerable_dependencies[i].key,
                                                  an.vulnerable_dependencies[i].val)]]

\* no analysis was made yet, nothing was rendered yet
NoAnalysis == [none |-> TRUE]
NoReport == [kind |-> "none"]

\* forward hands the analysis to _format_results
CallFormatResults ==
    /\ "none" \notin DOMAIN analysis
    /\ report = NoReport
    /\ report' = FormatResults(analysis)
    /\ UNCHANGED <<toolVars, rerunVars, builderVars, scan_outcomes, scanned, analysis>>

AnalysisIdle ==
    /\ scan_outcomes = <<>>
    /\ scanned = <<>>
    /\ analysis = NoAnalysis
    /\ report = NoReport

(***************************************************************************)
(* A second call on the same tool and the same root.  The universe is      *)
(* fixed before the first call, with the places where it raises, so both   *)
(* calls meet the same one.  The second call is made after the first       *)
(* returned its analysis, or while the first is building its tree: then    *)
(* the frames and the visited set of the first call wait until the second  *)
(* has returned.                                                           *)
(***************************************************************************)
NoOther == [stack |-> <<>>, visited |-> {}, tree |-> EmptyDict, analysis |-> NoAnalysis]

RerunIdle ==
    /\ second_call = "off"
    /\ other_call = NoOther

\* the requirement lists of the fixed universes: a chain, a branch that
\* meets a package twice, cycles back to the root
FixedRequirements ==
    {[A |-> Reqs("A", a), B |-> Reqs("B", b), C |-> Reqs("C", c)] :
        a \in {<<"B">>, <<"B", "C">>},
        b \in {<<>>, <<"A">>, <<"C">>},
        c \in {<<>>, <<"A">>}}

\* the places where a fixed universe raises: nowhere, or at one place
FixedFailures ==
    {{}} \cup {{[package |-> p, position |-> i]} : p \in {"A", "B"}, i \in {0, 1}}

RerunInit ==
    /\ root = [name |-> NoneValue, version |-> NoneValue]
    /\ \E a, b \in InstalledVersions \cup {Missing} :
          installed = [p \in Pkgs |-> CASE p = "A" -> a [] p = "B" -> b [] OTHER -> "1.0"]
    /\ \E reqs \in FixedRequirements :
          requires = [p \in Pkgs |-> [asked |-> TRUE, reqs |-> reqs[p]]]
    /\ failures \in FixedFailures
    /\ visited = {}
    /\ stack = <<>>
    /\ dependency_tree = EmptyDict
    /\ all_packages = EmptyDict
    /\ pc = "idle"
    /\ enumerated = <<>>
    /\ calls = {}
    /\ second_call = "none"
    /\ other_call = NoOther

\* forward is called again after the first call returned its analysis
CallAgain ==
    /\ pc = "analysed"
    /\ second_call = "none"
    /\ second_call' = "sequential"
    /\ other_call' = [other_call EXCEPT !.tree = dependency_tree, !.analysis = analysis]
    /\ stack' = <<Frame(root.name, root.version, <<>>)>>
    /\ visited' = OwnVisited(visited)
    /\ dependency_tree' = EmptyDict
    /\ all_packages' = EmptyDict
    /\ analysis' = NoAnalysis
    /\ pc' = "building"
    /\ UNCHANGED <<toolVars, root, installed, requires, failures, enumerated, calls,
                   scan_outcomes, scanned, report>>

\* a second call starts while the first is building its tree
Preempt ==
    /\ pc = "building"
    /\ second_call = "none"
    /\ second_call' = "nested"
    /\ other_call' = [other_call EXCEPT !.stack = stack, !.visited = visited]
    /\ stack' = <<Frame(root.name, root.version, <<>>)>>
    /\ visited' = OwnVisited(visited)
    /\ UNCHANGED <<toolVars, analysisVars, root, installed, requires, failures,
                   dependency_tree, all_packages, pc, enumerated, calls>>

\* the second call returns its tree and the first call goes on
ReturnToSuspended ==
    /\ pc = "building"
    /\ Len(stack) = 1
    /\ Top.phase = "return"
    /\ second_call = "nested"
    /\ second_call' = "resumed"
    /\ other_call' = [other_call EXCEPT !.tree = Top.ret]
    /\ stack' = other_call.stack
    /\ visited' = other_call.visited
    /\ UNCHANGED <<toolVars, analysisVars, root, installed, requires, failures,
                   dependency_tree, all_packages, pc, enumerated, calls>>

(***************************************************************************)
(* The analyses _format_results is applied to on its own: the analysis of  *)
(* a package with t - 1 installed requirements that require nothing, by a  *)
(* scanner with one finding for each of the first v packages; the dict     *)
(* returned when no tree could be built; a dict with no package at all.    *)
(***************************************************************************)
DependencyNames ==
    <<"d01", "d02", "d03", "d04", "d05", "d06", "d07", "d08", "d09", "d10", "d11", "d12",
      "d13", "d14", "d15", "d16">>

\* the tree the builder returns for d01 requiring d02 .. dt
FlatTree(t) ==
    LET top == DependencyNames[1] IN
    PackageNode(top, "1.0",
        [i \in 1..(t - 1) |->
            [key |-> DependencyNames[i + 1],
             val |-> DependencyEntry("1.0", ReqVersionStr("1.0", <<>>),
                         PackageNode(DependencyNames[i + 1], "1.0", EmptyDict, <<top>>),
                         <<top>>, <<>>)]],
        <<>>)

\* the scanner with one finding for each of the first v names
FindingsForFirst(t, v) ==
    [n \in {DependencyNames[i] : i \in 1..t} |->
        IF \E i \in 1..v : DependencyNames[i] = n THEN Found(n, 1) ELSE Clean]

\* what _extract_all_packages makes of that tree
FlatPackages(t) ==
    [i \in 1..t |->
        [key |-> DependencyNames[i],
         val |-> [version |-> "1.0",
                  path |-> IF i = 1 THEN <<>> ELSE <<DependencyNames[1]>>]]]

FlatAnalysis(t, v) ==
    LET acc == ScanLoop(FlatPackages(t), FindingsForFirst(t, v), LoopStart) IN
    AnalysisResult(FlatTree(t), FlatPackages(t),
                   acc.vulnerable_dependencies, acc.vulnerability_count)

FormatInit ==
    /\ \/ \E t \in 1..MaxDependencies : \E v \in 0..t : analysis = FlatAnalysis(t, v)
       \/ analysis = ErrorAnalysis(DependencyNames[1])
       \/ analysis = AnalysisResult(EmptyDict, EmptyDict, EmptyDict, 0)
    /\ scan_outcomes = <<>>
    /\ scanned = <<>>
    /\ report = NoReport

(***************************************************************************)
(* ScanPackageTool.forward (src/src/tools/scan_package.py).                *)
(* A raw record of the response carries its id, its texts, its affected    *)
(* list and its severity list.  The summary and details of the record at   *)
(* position i of the response are texts that name i, so the record a       *)
(* returned text came from can be told.                                    *)
(***************************************************************************)
ScannedPackage == "requests"

SummaryOf(i) == <<"summary", i>>
DetailsOf(i) == <<"details", i>>

Event(introduced, fixed) == [introduced |-> introduced, fixed |-> fixed]
AffectedRange(type, events) == [type |-> type, events |-> events]
Affected(name, ranges) == [name |-> name, ranges |-> ranges]

\* the strings one event adds to affected_versions
EventStrings(event) ==
    (IF event.introduced # NoneValue
     THEN <<RangeString(<<">", "=">>, event.introduced)>> ELSE <<>>)
    \o (IF event.fixed # NoneValue
        THEN <<RangeString(<<"<">>, event.fixed)>> ELSE <<>>)

RECURSIVE EventsStrings(_)
EventsStrings(events) ==
    IF events = <<>> THEN <<>>
    ELSE EventStrings(Head(events)) \o EventsStrings(Tail(events))

\* the loop over affected.get("ranges"): only the ranges of type SEMVER count
RECURSIVE RangesStrings(_)
RangesStrings(ranges) ==
    IF ranges = <<>> THEN <<>>
    ELSE (IF Head(ranges).type = "SEMVER"
          THEN EventsStrings(Head(ranges).events) ELSE <<>>)
         \o RangesStrings(Tail(ranges))

\* affected_versions of a raw record, for the package being scanned
RECURSIVE AffectedVersions(_, _)
AffectedVersions(affected, package_name) ==
    IF affected = <<>> THEN <<>>
    ELSE (IF Head(affected).name = package_name
          THEN RangesStrings(Head(affected).ranges) ELSE <<>>)
         \o AffectedVersions(Tail(affected), package_name)

\* a mutation: no record is filtered
KeepRecordAlways(package_version, affected_versions) == TRUE

\* the negation of the test of line 90
KeepRecord(package_version, affected_versions) ==
    package_version = NoneValue
    \/ IsVersionAffected(package_version, affected_versions)

CvssVector == "CVSS:3.1/AV:N/AC:L/PR:N/UI:N/S:U/C:H/I:H/A:H"

\* re.search(r"(\d+\.\d+)$", score): the number the string ends with, in
\* thousandths, or -1 when there is no match
TrailingDecimal(score) ==
    CASE score = "9.8" -> 9800
      [] score = "7.5" -> 7500
      [] OTHER -> -1

\* one pass of the loop over vuln.get("severity") from the state
\* [base_score, severity_level]
SeverityStep(st, sev) ==
    IF sev.type = "CVSS_V3" THEN
        LET m == TrailingDecimal(sev.score)
            f == Float(Score("str", 0, sev.score)) IN
        IF m >= 0 THEN
            [base_score |-> m,
             severity_level |-> GetSeverityFromScore(Score("float", m, "")).value]
        ELSE IF f.exc = "ValueError" THEN st
        ELSE [base_score |-> f.milli,
              severity_level |-> GetSeverityFromScore(Score("float", f.milli, "")).value]
    ELSE st

RECURSIVE SeverityLoop(_, _)
SeverityLoop(st, severity_list) ==
    IF severity_list = <<>> THEN st
    ELSE SeverityLoop(SeverityStep(st, Head(severity_list)), Tail(severity_list))

\* base_score and severity_level of a raw record
ExtractSeverity(severity_list) ==
    SeverityLoop([base_score |-> 0, severity_level |-> "Unknown"], severity_list)

\* the record built at lines 117-130
Vulnerability(vuln, package_name) ==
    [id |-> vuln.id,
     summary |-> vuln.summary,
     details |-> vuln.details,
     affected_versions |-> AffectedVersions(vuln.affected, package_name),
     severity |-> ExtractSeverity(vuln.severity).severity_level,
     base_score |-> ExtractSeverity(vuln.severity).base_score]

\* a mutation: a later record replaces the one stored under its id
StoreUniqueLast(unique, vulnerability) ==
    DictSet(unique, vulnerability.id, vulnerability)

\* lines 132-136: a record is stored under its id unless one is there; the
\* enrichment applies to a record without the key 'severity', and every
\* record built above has it
StoreUnique(unique, vulnerability) ==
    IF vulnerability.id \in DictKeys(unique) THEN unique
    ELSE IF "severity" \notin DOMAIN vulnerability
         THEN DictSet(unique, vulnerability.id,
                      [k \in DOMAIN vulnerability \cup {"severity"} |->
                          IF k = "severity"
                          THEN GetSeverityFromScore(
                                   Score("float", vulnerability.base_score, "")).value
                          ELSE vulnerability[k]])
         ELSE DictSet(unique, vulnerability.id, vulnerability)

\* the loop over data.get("vulns") from position i on
RECURSIVE ProcessVulns(_, _, _, _, _)
ProcessVulns(vulns, i, unique, package_name, package_version) ==
    IF i > Len(vulns) THEN unique
    ELSE LET vulnerability == Vulnerability(vulns[i], package_name) IN
         IF ~KeepRecord(package_version, vulnerability.affected_versions)
         THEN ProcessVulns(vulns, i + 1, unique, package_name, package_version)
         ELSE ProcessVulns(vulns, i + 1, StoreUnique(unique, vulnerability),
                           package_name, package_version)

\* v.get('severity', 'UNKNOWN').upper()
Upper(severity_level) ==
    IF severity_level = "Unknown" THEN "UNKNOWN" ELSE severity_level

\* severity_order.get(..., 5)
SeverityOrder(name) ==
    CASE name = "CRITICAL" -> 0
      [] name = "HIGH"     -> 1
      [] name = "MEDIUM"   -> 2
      [] name = "LOW"      -> 3
      [] name = "UNKNOWN"  -> 4
      [] OTHER             -> 5

SortKey(v) == SeverityOrder(Upper(v.severity))

\* a mutation: a record is placed before the records of its own rank
InsertBeforeEqual(v, sorted) ==
    LET k == CHOOSE n \in 0..Len(sorted) :
                 /\ \A j \in 1..n : SortKey(sorted[j]) < SortKey(v)
                 /\ n < Len(sorted) => SortKey(sorted[n + 1]) >= SortKey(v)
    IN SubSeq(sorted, 1, k) \o <<v>> \o SubSeq(sorted, k + 1, Len(sorted))

\* sorted() is stable: a record goes behind the records whose key is not
\* greater than its own
InsertByKey(v, sorted) ==
    LET k == CHOOSE n \in 0..Len(sorted) :
                 /\ \A j \in 1..n : SortKey(sorted[j]) <= SortKey(v)
                 /\ n < Len(sorted) => SortKey(sorted[n + 1]) > SortKey(v)
    IN SubSeq(sorted, 1, k) \o <<v>> \o SubSeq(sorted, k + 1, Len(sorted))

RECURSIVE SortedFrom(_, _, _)
SortedFrom(values, i, sorted) ==
    IF i > Len(values) THEN sorted
    ELSE SortedFrom(values, i + 1, InsertByKey(values[i], sorted))

\* sorted(list(unique_vulnerabilities.values()), key=...)
SortedVulnerabilities(unique) ==
    SortedFrom([i \in DOMAIN unique |-> unique[i].val], 1, <<>>)

\* lines 45-51: the version the rest of forward works with
ResolvedVersion(supplied, found) ==
    IF supplied # NoneValue THEN supplied
    ELSE IF found # Missing THEN found
    ELSE NoneValue

\* forward(package_name, package_version) against an installed set and a
\* response
ScanForward(package_name, supplied, found, response) ==
    IF response.status # "ok" THEN <<>>
    ELSE SortedVulnerabilities(
             ProcessVulns(response.vulns, 1, EmptyDict, package_name,
                          ResolvedVersion(supplied, found)))

(***************************************************************************)
(* The inputs of the single-package scan.                                  *)
(***************************************************************************)
VulnIds == {"X", "Y"}

AffectedLists ==
    { \* [1.0, 2.0) of the scanned package as its SEMVER range; the range of
      \* another type and the entry of another package are passed over
      <<Affected(ScannedPackage,
                 <<AffectedRange("ECOSYSTEM", <<Event("2.0", NoneValue)>>),
                   AffectedRange("SEMVER", <<Event("1.0", NoneValue),
                                             Event(NoneValue, "2.0")>>)>>),
        Affected("urllib3",
                 <<AffectedRange("SEMVER", <<Event("2.0", NoneValue)>>)>>)>>,
      \* from 2.0 on
      <<Affected(ScannedPackage,
                 <<AffectedRange("SEMVER", <<Event("2.0", NoneValue)>>)>>)>> }

SeverityLists ==
    { <<>>,
      <<[type |-> "CVSS_V3", score |-> "9.8"]>>,
      <<[type |-> "CVSS_V2", score |-> "5.0"],
        [type |-> "CVSS_V3", score |-> "7.5"],
        [type |-> "CVSS_V3", score |-> CvssVector]>> }

RawVuln(i, id, affected, severity_list) ==
    [id |-> id, summary |-> SummaryOf(i), details |-> DetailsOf(i),
     affected |-> affected, severity |-> severity_list]

\* the list of n raw records with the given ids, affected lists and
\* severity lists
RawList(n, ids, aff, sev) == [i \in 1..n |-> RawVuln(i, ids[i], aff[i], sev[i])]

\* the request raised, the status check raised, the body did not decode
ResponseFailures == {"transport", "http", "decode"}

QueryInit ==
    /\ supplied_version \in {NoneValue, "1.0"}
    /\ installed_version \in
           IF supplied_version = NoneValue THEN {Missing, "0.9"} ELSE {Missing}
    /\ \/ \E n \in 0..MaxVulns :
              \E ids \in [1..n -> VulnIds], aff \in [1..n -> AffectedLists],
                 sev \in [1..n -> SeverityLists] :
                  osv_response = [status |-> "ok", vulns |-> RawList(n, ids, aff, sev)]
       \/ \E f \in ResponseFailures :
              osv_response = [status |-> f, vulns |-> <<>>]
    /\ scan_result = [returned |-> FALSE, version |-> NoneValue, value |-> <<>>]

\* the call forward(ScannedPackage, supplied_version)
ScanPackageForward ==
    /\ ~scan_result.returned
    /\ scan_result' =
           [returned |-> TRUE,
            version |-> ResolvedVersion(supplied_version, installed_version),
            value |-> ScanForward(ScannedPackage, supplied_version,
                                  installed_version, osv_response)]
    /\ UNCHANGED <<supplied_version, installed_version, osv_response, nonQueryVars>>

QueryIdle ==
    /\ supplied_version = NoneValue
    /\ installed_version = Missing
    /\ osv_response = [status |-> "ok", vulns |-> <<>>]
    /\ scan_result = [returned |-> FALSE, version |-> NoneValue, value |-> <<>>]

(***************************************************************************)
(* PackageScanTool.forward (src/src/tools/package_scan.py).                *)
(* The vulnerability at place j of the entry at index i of the results is  *)
(* [id |-> <<"id", i, j>>, modified |-> <<"modified", i, j>>], so the      *)
(* entry a reported vulnerability came from can be told.  Python counts    *)
(* the entries from 0; here they are counted from 1.                       *)
(***************************************************************************)
LookupFailed == "failed"

\* lines 41-48: the version of one package after the latest-version lookup
LatestVersion(pkg, lookup) ==
    IF pkg.version # NoneValue THEN pkg.version
    ELSE IF lookup = LookupFailed THEN NoneValue
    ELSE lookup

\* prepared_packages
PreparedPackages(pkgs, answers) ==
    [i \in DOMAIN pkgs |->
        [name |-> pkgs[i].name, version |-> LatestVersion(pkgs[i], answers[i])]]

\* a mutation: the query is left out when the lookup gave no version
BatchQueriesSkipUnversioned(prepared) ==
    LET RECURSIVE Build(_)
        Build(i) ==
            IF i > Len(prepared) THEN <<>>
            ELSE (IF prepared[i].version # NoneValue
                  THEN <<[package |-> [name |-> prepared[i].name, ecosystem |-> "PyPI"],
                          version |-> prepared[i].version]>>
                  ELSE <<>>) \o Build(i + 1)
    IN Build(1)

\* lines 52-61: one query for each package, the version only when there is one
BatchQueries(prepared) ==
    [i \in DOMAIN prepared |->
        IF prepared[i].version # NoneValue
        THEN [package |-> [name |-> prepared[i].name, ecosystem |-> "PyPI"],
              version |-> prepared[i].version]
        ELSE [package |-> [name |-> prepared[i].name, ecosystem |-> "PyPI"]]]

\* an entry of the results: a dict with or without the key vulns, or null
NullEntry == [null |-> TRUE]
EntryWithout == [other |-> TRUE]
EntryWith(vulns) == [vulns |-> vulns]

\* result.get("vulns", [])
VulnsOf(result) == IF "vulns" \in DOMAIN result THEN result.vulns ELSE <<>>

\* lines 76-82: the records one entry adds for the package at its index
ReportedFor(pkg_info, result) ==
    [j \in DOMAIN VulnsOf(result) |->
        [package |-> pkg_info.name,
         package_version |-> pkg_info.version,
         vulnerability_id |-> VulnsOf(result)[j].id,
         modified_date |-> VulnsOf(result)[j].modified,
         source |-> "OSV"]]

\* a mutation: the entries beyond the inputs are reported for the last input
ProcessResultsClamped(results, i, prepared, vulnerabilities) ==
    LET RECURSIVE Go(_, _)
        Go(k, acc) ==
            IF k > Len(results) THEN [exc |-> "no", value |-> acc]
            ELSE IF prepared = <<>> THEN Go(k + 1, acc)
            ELSE IF results[k] = NullEntry THEN [exc |-> "AttributeError", value |-> acc]
            ELSE Go(k + 1, acc \o ReportedFor(
                                      prepared[IF k > Len(prepared) THEN Len(prepared) ELSE k],
                                      results[k]))
    IN Go(i, vulnerabilities)

\* a mutation: the entries beyond the inputs are reported for no package
ProcessResultsUnattributed(results, i, prepared, vulnerabilities) ==
    LET RECURSIVE Go(_, _)
        Go(k, acc) ==
            IF k > Len(results) THEN [exc |-> "no", value |-> acc]
            ELSE IF results[k] = NullEntry THEN [exc |-> "AttributeError", value |-> acc]
            ELSE Go(k + 1, acc \o ReportedFor(
                                      IF k > Len(prepared)
                                      THEN [name |-> NoneValue, version |-> NoneValue]
                                      ELSE prepared[k],
                                      results[k]))
    IN Go(i, vulnerabilities)

\* lines 70-82: the loop over the results from index i on; an entry that is
\* no dict raises when its vulns are asked for
RECURSIVE ProcessResults(_, _, _, _)
ProcessResults(results, i, prepared, vulnerabilities) ==
    IF i > Len(results) THEN [exc |-> "no", value |-> vulnerabilities]
    ELSE IF i > Len(prepared)
         THEN ProcessResults(results, i + 1, prepared, vulnerabilities)
    ELSE IF results[i] = NullEntry
         THEN [exc |-> "AttributeError", value |-> vulnerabilities]
    ELSE ProcessResults(results, i + 1, prepared,
                        vulnerabilities \o ReportedFor(prepared[i], results[i]))

\* the exception the request, the status check or the decoding raises
ResponseException(response) ==
    CASE response.status = "transport" -> "RequestException"
      [] response.status = "http"      -> "HTTPError"
      [] response.status = "decode"    -> "ValueError"
      [] OTHER                         -> "no"

\* the body of the try block: [exc, value]
BatchTry(pkgs, answers, response) ==
    IF ResponseException(response) # "no"
    THEN [exc |-> ResponseException(response), value |-> <<>>]
    ELSE ProcessResults(response.results, 1, PreparedPackages(pkgs, answers), <<>>)

\* a mutation: only the exceptions of requests are caught
BatchCaughtRequestsOnly(exc) == exc \in {"RequestException", "HTTPError"}

\* except Exception
BatchCaught(exc) ==
    exc \in {"RequestException", "HTTPError", "ValueError", "AttributeError"}

\* forward(packages): [raised, value]
BatchForward(pkgs, answers, response) ==
    LET t == BatchTry(pkgs, answers, response) IN
    IF t.exc = "no" THEN [raised |-> FALSE, value |-> t.value]
    ELSE IF BatchCaught(t.exc) THEN [raised |-> FALSE, value |-> <<>>]
    ELSE [raised |-> TRUE, value |-> <<>>]

(***************************************************************************)
(* The inputs of the batch scan.                                           *)
(***************************************************************************)
BatchNames == {"requests", "numpy"}

PackageDicts == {[name |-> n, version |-> v] : n \in BatchNames, v \in {NoneValue, "1.0"}}

\* the vulns of the entry at index i holding n vulnerabilities
VulnsAt(i, n) == [j \in 1..n |-> [id |-> <<"id", i, j>>, modified |-> <<"modified", i, j>>]]

\* the entries an index of the results may hold
EntriesAt(i) ==
    {NullEntry, EntryWithout, EntryWith(VulnsAt(i, 0)), EntryWith(VulnsAt(i, 1)),
     EntryWith(VulnsAt(i, 2))}

BatchInit ==
    /\ \E n \in 0..MaxPackages :
          /\ batch_packages \in [1..n -> PackageDicts]
          /\ lookups \in [1..n -> {LookupFailed, "2.0"}]
    /\ \A i \in DOMAIN batch_packages :
          batch_packages[i].version # NoneValue => lookups[i] = LookupFailed
    /\ \/ \E n \in 0..(MaxPackages + 1) :
              \E entries \in [1..n -> 1..5] :
                  batch_response =
                      [status |-> "ok",
                       results |-> [i \in 1..n |->
                           CASE entries[i] = 1 -> NullEntry
                             [] entries[i] = 2 -> EntryWithout
                             [] OTHER -> EntryWith(VulnsAt(i, entries[i] - 3))]]
       \/ \E f \in ResponseFailures :
              batch_response = [status |-> f, results |-> <<>>]
    /\ posts = <<>>
    /\ batch_result = [returned |-> FALSE, raised |-> FALSE, value |-> <<>>]

\* the call forward(batch_packages): the queries are built, the one POST
\* of line 64 is issued, and the response is processed
PackageScanForward ==
    /\ ~batch_result.returned
    /\ posts' = Append(posts,
                       [queries |-> BatchQueries(PreparedPackages(batch_packages, lookups))])
    /\ batch_result' =
           [returned |-> TRUE,
            raised |-> BatchForward(batch_packages, lookups, batch_response).raised,
            value |-> BatchForward(batch_packages, lookups, batch_response).value]
    /\ UNCHANGED <<batch_packages, lookups, batch_response, nonBatchVars>>

BatchIdle ==
    /\ batch_packages = <<>>
    /\ lookups = <<>>
    /\ batch_response = [status |-> "ok", results |-> <<>>]
    /\ posts = <<>>
    /\ batch_result = [returned |-> FALSE, raised |-> FALSE, value |-> <<>>]

(***************************************************************************)
(* Specifications.                                                         *)
(***************************************************************************)
ScannerIdle ==
    /\ scan_version = "1.0"
    /\ scan_ranges = <<>>
    /\ is_affected = [returned |-> FALSE, raised |-> FALSE, value |-> FALSE]

SeverityIdle ==
    /\ base_score = Score("None", 0, "")
    /\ severity = [returned |-> FALSE, raised |-> FALSE, value |-> NoneValue]

BuilderIdle ==
    /\ root = [name |-> NoneValue, version |-> NoneValue]
    /\ installed = [p \in Pkgs |-> Unasked]
    /\ requires = [p \in Pkgs |-> [asked |-> FALSE, reqs |-> <<>>]]
    /\ failures = {}
    /\ visited = {}
    /\ stack = <<>>
    /\ dependency_tree = EmptyDict
    /\ all_packages = EmptyDict
    /\ pc = "off"
    /\ enumerated = <<>>
    /\ calls = {}

Init ==
    /\ BuilderInit /\ AnalysisIdle /\ RerunIdle
    /\ ScannerIdle /\ SeverityIdle /\ QueryIdle /\ BatchIdle

Next ==
    \/ TopLevelCall
    \/ Enter
    \/ Enumerate
    \/ ProcessRequirement
    \/ RequirementRaises
    \/ LoopEnd
    \/ ReturnToCaller
    \/ ReturnToTop
    \/ Extract
    \/ ScanPackages
    \/ CallFormatResults

Spec == Init /\ [][Next]_vars

InitScanner ==
    ScannerInit /\ SeverityIdle /\ QueryIdle /\ BuilderIdle /\ BatchIdle
    /\ AnalysisIdle /\ RerunIdle

NextScanner == CallIsVersionAffected

SpecScanner == InitScanner /\ [][NextScanner]_vars

InitSeverity ==
    SeverityInit /\ ScannerIdle /\ QueryIdle /\ BuilderIdle /\ BatchIdle
    /\ AnalysisIdle /\ RerunIdle

NextSeverity == CallGetSeverityFromScore

SpecSeverity == InitSeverity /\ [][NextSeverity]_vars

InitQuery ==
    QueryInit /\ ScannerIdle /\ SeverityIdle /\ BuilderIdle /\ BatchIdle
    /\ AnalysisIdle /\ RerunIdle

NextQuery == ScanPackageForward

SpecQuery == InitQuery /\ [][NextQuery]_vars

InitBatch ==
    BatchInit /\ ScannerIdle /\ SeverityIdle /\ QueryIdle /\ BuilderIdle
    /\ AnalysisIdle /\ RerunIdle

NextBatch == PackageScanForward

SpecBatch == InitBatch /\ [][NextBatch]_vars

InitFormat ==
    /\ FormatInit /\ BuilderIdle /\ RerunIdle
    /\ ScannerIdle /\ SeverityIdle /\ QueryIdle /\ BatchIdle

InitRerun ==
    RerunInit /\ AnalysisIdle /\ ScannerIdle /\ SeverityIdle /\ QueryIdle /\ BatchIdle

NextRerun ==
    \/ TopLevelCall
    \/ Enter
    \/ Enumerate
    \/ ProcessRequirement
    \/ RequirementRaises
    \/ LoopEnd
    \/ ReturnToCaller
    \/ ReturnToTop
    \/ Extract
    \/ ScanPackages
    \/ CallAgain
    \/ Preempt
    \/ ReturnToSuspended

SpecRerun == InitRerun /\ [][NextRerun]_vars

NextFormat == CallFormatResults

SpecFormat == InitFormat /\ [][NextFormat]_vars

(***************************************************************************)
(* Reading a tree: the occurrences of packages in it, in the order         *)
(* extract_recursively meets them, each with the name of the node it is    *)
(* a child of (None for the root).                                         *)
(***************************************************************************)
RECURSIVE Occurrences(_, _)
Occurrences(tree, parent) ==
    IF tree = EmptyDict THEN <<>>
    ELSE LET item == Head(tree) IN
         <<[key |-> item.key, val |-> item.val, parent |-> parent]>>
         \o (IF item.key = "ERROR" THEN <<>>
             ELSE Occurrences(item.val.dependencies, item.key))
         \o Occurrences(Tail(tree), parent)

TreeNodes == Occurrences(dependency_tree, NoneValue)

IsPackage(n) == n.key # "ERROR"

\* the node has a child that is a package (the ERROR entry is none)
HasChildren(n) == IsPackage(n) /\ DictKeys(n.val.dependencies) \ {"ERROR"} # {}

\* a node written by a return statement of the builder, as opposed to an
\* entry the loop stores under dependencies[req_name]
IsReturnedNode(n) == IsPackage(n) /\ "specs" \notin DOMAIN n.val

IsLeaf(n) == n.val.dependencies = EmptyDict

\* the names the distribution of a package is known to require
RequiredNames(name) ==
    IF name \in Pkgs /\ requires[name].asked
    THEN {requires[name].reqs[j].name : j \in DOMAIN requires[name].reqs}
    ELSE {}

(***************************************************************************)
(* C1.  A top-level call terminates and the returned tree holds, for each  *)
(* package, at most one node of that name that has children.               *)
(***************************************************************************)
C1_OneExpandedOccurrence ==
    pc = "built" =>
        \A name \in Pkgs :
            Cardinality({i \in DOMAIN TreeNodes :
                            TreeNodes[i].key = name /\ HasChildren(TreeNodes[i])}) <= 1

(***************************************************************************)
(* C2.  Within one top-level call the visited set only grows, each key     *)
(* has its requirements enumerated at most once, and an activation that    *)
(* arrives at a key already visited returns the empty dict without         *)
(* enumerating anything.                                                   *)
(***************************************************************************)
C2_EnumeratedOnce ==
    /\ \A i, j \in DOMAIN enumerated : enumerated[i] = enumerated[j] => i = j
    /\ \A i \in DOMAIN enumerated : enumerated[i] \in visited

C2_VisitedStep ==
    (pc = "building" /\ stack # <<>>) =>
        /\ visited \subseteq visited'
        /\ (/\ Top.phase = "enter"
            /\ PackageKey(Top.package_name, installed'[Top.package_name]) \in visited
            /\ Top.package_version \in {NoneValue, installed'[Top.package_name]}
            /\ stack' # stack)
           => /\ Len(stack') = Len(stack)
              /\ stack'[Len(stack)].phase = "return"
              /\ stack'[Len(stack)].ret = EmptyDict
              /\ visited' = visited
              /\ enumerated' = enumerated

C2_VisitedShared == [](C2_EnumeratedOnce) /\ [][C2_VisitedStep]_vars

\* an activation has just returned the empty dict for a visited key while
\* another branch is still being walked
C2_Witness ==
    /\ pc = "building"
    /\ Len(stack) > 1
    /\ Top.phase = "return"
    /\ Top.ret = EmptyDict
    /\ Len(enumerated) >= 2

(***************************************************************************)
(* C3.  In the returned tree a node named X has a child named Y only if Y  *)
(* is one of the declared requirements of X.                               *)
(***************************************************************************)
C3_ChildIsRequirement ==
    pc = "built" =>
        \A i \in DOMAIN TreeNodes :
            LET n == TreeNodes[i] IN
            (IsPackage(n) /\ n.parent # NoneValue) => n.key \in RequiredNames(n.parent)

(***************************************************************************)
(* C4.  Every package of all_packages occurs at exactly one node of the    *)
(* tree, and every node of the tree other than ERROR has an entry.         *)
(***************************************************************************)
C4_OneNodePerPackage ==
    pc = "extracted" =>
        /\ \A k \in DictKeys(all_packages) :
              Cardinality({i \in DOMAIN TreeNodes : TreeNodes[i].key = k}) = 1
        /\ \A i \in DOMAIN TreeNodes :
              IsPackage(TreeNodes[i]) => TreeNodes[i].key \in DictKeys(all_packages)

(***************************************************************************)
(* C5.  A package whose version cannot be resolved is recorded as a leaf   *)
(* without children and the loop goes on with the next requirement.        *)
(* As claimed, the version of every such leaf is "unknown".                *)
(***************************************************************************)
\* the occurrences of packages that could not be resolved: a dependency
\* that is not installed, or the root asked for without a version
Unresolved(n) ==
    /\ IsPackage(n)
    /\ installed[n.key] = Missing
    /\ n.parent = NoneValue => root.version = NoneValue

C5_UnknownLeaf ==
    pc = "built" =>
        \A i \in DOMAIN TreeNodes :
            Unresolved(TreeNodes[i]) =>
                /\ TreeNodes[i].val.version = "unknown"
                /\ IsLeaf(TreeNodes[i])

\* every requirement the loop of a frame has passed left its entry in the
\* dependencies of the frame, so no requirement ended the loop
LoopWentOn(f) ==
    \A j \in 1..(f.i - 1) :
        /\ j <= Len(f.reqs)
        /\ f.reqs[j].name \in DictKeys(f.dependencies)
        /\ installed[f.reqs[j].name] = Missing =>
              DictGet(f.dependencies, f.reqs[j].name).version = "Not installed"

\* As amended: the leaf of an unresolved root has the version "unknown",
\* the leaf of a dependency that is not installed has the version
\* "Not installed"; neither has children, the loop goes on with the next
\* requirement and no ERROR entry is written unless something raised.
C5_UnresolvedLeaf ==
    /\ \A k \in DOMAIN stack :
          /\ LoopWentOn(stack[k])
          /\ "ERROR" \in DictKeys(stack[k].dependencies) => failures # {}
    /\ pc = "built" =>
          /\ \A i \in DOMAIN TreeNodes :
                Unresolved(TreeNodes[i]) =>
                    /\ IsLeaf(TreeNodes[i])
                    /\ TreeNodes[i].val.version =
                          IF TreeNodes[i].parent = NoneValue THEN "unknown"
                          ELSE "Not installed"
          /\ \A i \in DOMAIN TreeNodes :
                ~IsPackage(TreeNodes[i]) => failures # {}

\* the tree of a root whose first requirement is not installed and whose
\* second requirement was still walked
C5_Witness ==
    /\ pc = "built"
    /\ failures = {}
    /\ \E i, j \in DOMAIN TreeNodes :
          /\ i < j
          /\ TreeNodes[i].parent = root.name
          /\ TreeNodes[j].parent = root.name
          /\ Unresolved(TreeNodes[i])
          /\ TreeNodes[i].val.version = "Not installed"
          /\ TreeNodes[j].val.version = "1.0"

(***************************************************************************)
(* C6.  When enumerating or processing the requirements of a package       *)
(* raises, the node of the package gets an ERROR child with the message,   *)
(* the call still returns the node, the requirements of the package not    *)
(* yet processed are still walked, and ERROR is no key of all_packages.    *)
(***************************************************************************)
C6_FailureDoesNotAbort ==
    /\ pc \in {"built", "extracted"} =>
          \A fl \in failures :
             \E i \in DOMAIN TreeNodes :
                LET n == TreeNodes[i] IN
                /\ n.key = fl.package
                /\ IsReturnedNode(n)
                /\ "ERROR" \in DictKeys(n.val.dependencies)
                /\ DictGet(n.val.dependencies, "ERROR").message \in {"requires", "requirement"}
                /\ \A j \in DOMAIN requires[n.key].reqs :
                      j > fl.position =>
                         requires[n.key].reqs[j].name \in DictKeys(n.val.dependencies)
    /\ pc = "extracted" => "ERROR" \notin DictKeys(all_packages)

(***************************************************************************)
(* C7.  A dependency whose installed version fails one of its declared     *)
(* specs is flagged in the returned tree: its entry differs from the       *)
(* entry the builder writes for the same dependency when the specs are     *)
(* met, and the builder made the recursive call all the same, which went   *)
(* as far as the visited test.                                             *)
(***************************************************************************)
\* the entry of the recursive call c in the returned tree
IsEntryOf(n, c) ==
    /\ n.key = c.name
    /\ n.parent = c.parent
    /\ ~IsReturnedNode(n)
    /\ n.val.path = c.path
    /\ n.val.version = c.version

\* the entry the loop writes when version_match is True: req_version_str
\* is the bare version
EntryWhenSatisfied(n) ==
    DependencyEntry(n.val.version, ReqVersionStr(n.val.version, <<>>),
                    n.val.dependencies, n.val.path, n.val.specs)

C7_MismatchFlagged ==
    pc = "built" =>
        \A c \in calls :
            /\ PackageKey(c.name, c.version) \in visited
            /\ \E i \in DOMAIN TreeNodes : IsEntryOf(TreeNodes[i], c)
            /\ ~c.match =>
                  \A i \in DOMAIN TreeNodes :
                      IsEntryOf(TreeNodes[i], c) =>
                          TreeNodes[i].val # EntryWhenSatisfied(TreeNodes[i])

(***************************************************************************)
(* The evaluator's claims are read against the meaning of one range        *)
(* string: its operator and version, a bare version being an exact match.  *)
(***************************************************************************)
WellFormed(c) == c \in WellFormedRanges

\* the version meets the constraint the range string states
Satisfies(version, c) ==
    /\ ~ParseRaises(version)
    /\ CASE c.ops = <<"=", "=">> -> VersionParse(version) = VersionParse(c.text)
         [] c.ops = <<"!", "=">> -> VersionParse(version) # VersionParse(c.text)
         [] c.ops = <<">", "=">> -> ~TupleLess(VersionParse(version), VersionParse(c.text))
         [] c.ops = <<"<", "=">> -> ~TupleLess(VersionParse(c.text), VersionParse(version))
         [] c.ops = <<">">>      -> TupleLess(VersionParse(c.text), VersionParse(version))
         [] c.ops = <<"<">>      -> TupleLess(VersionParse(version), VersionParse(c.text))
         [] c.ops = <<>>         -> VersionParse(version) = VersionParse(c.text)

AllWellFormed(ranges) == \A i \in DOMAIN ranges : WellFormed(ranges[i])

(***************************************************************************)
(* C8.  For v1 < v2 and the ranges [">=v1", "<v2"] a version is affected   *)
(* only inside [v1, v2): v1 is affected, v2 is not, nor is any version     *)
(* below v1.                                                               *)
(***************************************************************************)
C8_HalfOpenRange ==
    (/\ is_affected.returned
     /\ ~ParseRaises(scan_version)
     /\ Len(scan_ranges) = 2
     /\ AllWellFormed(scan_ranges)
     /\ scan_ranges[1].ops = <<">", "=">>
     /\ scan_ranges[2].ops = <<"<">>
     /\ VersionLt(scan_ranges[1].text, scan_ranges[2].text))
    => LET v1 == scan_ranges[1].text
           v2 == scan_ranges[2].text IN
       /\ VersionEq(scan_version, v2) => ~is_affected.value
       /\ VersionEq(scan_version, v1) => is_affected.value
       /\ VersionLt(scan_version, v1) => ~is_affected.value

C10_EmptyRanges ==
    (is_affected.returned /\ scan_ranges = <<>>) => is_affected.value

\* the call returned for a version that does not parse and no ranges
C10_Witness ==
    /\ is_affected.returned
    /\ scan_ranges = <<>>
    /\ ParseRaises(scan_version)

(***************************************************************************)
(* C11.  is_version_affected never raises: the call always ends by a       *)
(* return of a boolean, and with a list of ranges that is not empty a      *)
(* package version that does not parse gives false.                        *)
(***************************************************************************)
C11_NeverRaises ==
    is_affected.returned =>
        /\ ~is_affected.raised
        /\ is_affected.value \in BOOLEAN
        /\ (scan_ranges # <<>> /\ ParseRaises(scan_version)) => ~is_affected.value

\* the loop reached a range string that does not parse, the version being
\* a parsable one that the ranges before it do not match
C11_Witness ==
    /\ is_affected.returned
    /\ ~ParseRaises(scan_version)
    /\ scan_ranges # <<>>
    /\ TryBlock(scan_version, scan_ranges) = "raise"

(***************************************************************************)
(* C12.  get_severity_from_score returns for every argument, and by band:  *)
(* a number s gives CRITICAL when s >= 9.0, HIGH when 7.0 <= s < 9.0,      *)
(* MEDIUM when 4.0 <= s < 7.0, LOW when 0.0 < s < 4.0 and UNKNOWN when     *)
(* s <= 0.0; a string that is no number and None give UNKNOWN.             *)
(***************************************************************************)
C12_SeverityBands ==
    severity.returned =>
        /\ ~severity.raised
        /\ severity.value \in {"CRITICAL", "HIGH", "MEDIUM", "LOW", "UNKNOWN"}
        /\ base_score.kind = "float" =>
              LET s == base_score.milli IN
              /\ (s >= 9000) => severity.value = "CRITICAL"
              /\ (7000 <= s /\ s < 9000) => severity.value = "HIGH"
              /\ (4000 <= s /\ s < 7000) => severity.value = "MEDIUM"
              /\ (0 < s /\ s < 4000) => severity.value = "LOW"
              /\ (s <= 0) => severity.value = "UNKNOWN"
        /\ (base_score.kind = "str" /\ base_score.text \notin NumberStrings)
              => severity.value = "UNKNOWN"
        /\ base_score.kind = "None" => severity.value = "UNKNOWN"

\* the call returned for the score 8.999
C12_Witness ==
    /\ severity.returned
    /\ base_score = Score("float", 8999, "")
    /\ severity.value = "HIGH"

(***************************************************************************)
(* Reading a scan: the response forward received and the list it returned. *)
(***************************************************************************)
RawVulns == osv_response.vulns

Returned == scan_result.value

ScanSucceeded == scan_result.returned /\ osv_response.status = "ok"

\* the raw record at position i is not dropped by the version filter
PassesFilter(i) ==
    scan_result.version = NoneValue
    \/ IsVersionAffected(scan_result.version,
                         AffectedVersions(RawVulns[i].affected, ScannedPackage))

\* the positions of the raw records with an id, and of those among them
\* that pass the filter
PositionsOf(id) == {i \in DOMAIN RawVulns : RawVulns[i].id = id}
PassingPositionsOf(id) == {i \in PositionsOf(id) : PassesFilter(i)}

Least(S) == CHOOSE i \in S : \A j \in S : i <= j

ReturnedWith(id) == {k \in DOMAIN Returned : Returned[k].id = id}

(***************************************************************************)
(* C13.  The returned list never holds two records with one id: for every  *)
(* id of the response that passes the version filter exactly one record is *)
(* returned, and its summary and details are those of the first raw record *)
(* with that id in the order of the response.                              *)
(***************************************************************************)
C13_FirstRawRecordWins ==
    ScanSucceeded =>
        \A id \in VulnIds :
            /\ Cardinality(ReturnedWith(id)) <= 1
            /\ PassingPositionsOf(id) # {} =>
                  /\ Cardinality(ReturnedWith(id)) = 1
                  /\ \A k \in ReturnedWith(id) :
                        /\ Returned[k].summary = RawVulns[Least(PositionsOf(id))].summary
                        /\ Returned[k].details = RawVulns[Least(PositionsOf(id))].details

\* As amended: the summary and details are those of the first raw record
\* with that id among the records that pass the version filter; a record
\* the filter drops does not count as seen.
C13_FirstPassingRecordWins ==
    ScanSucceeded =>
        \A id \in VulnIds :
            /\ Cardinality(ReturnedWith(id)) <= 1
            /\ PassingPositionsOf(id) # {} =>
                  /\ Cardinality(ReturnedWith(id)) = 1
                  /\ \A k \in ReturnedWith(id) :
                        /\ Returned[k].summary
                               = RawVulns[Least(PassingPositionsOf(id))].summary
                        /\ Returned[k].details
                               = RawVulns[Least(PassingPositionsOf(id))].details

\* two raw records with one id pass the filter and one record came back
C13_Witness ==
    /\ ScanSucceeded
    /\ \E id \in VulnIds :
          /\ Cardinality(PassingPositionsOf(id)) >= 2
          /\ Cardinality(ReturnedWith(id)) = 1

(***************************************************************************)
(* C14.  Of two raw records with one id, the first without a severity and  *)
(* the later with one, exactly one record is returned; it carries the      *)
(* severity of the later record and the summary and details of the first.  *)
(***************************************************************************)
\* the severity a raw record supplies on its own: "Unknown" when it has none
SuppliedSeverity(i) == ExtractSeverity(RawVulns[i].severity).severity_level

C14_SeverityBackfilled ==
    ScanSucceeded =>
        \A i, j \in DOMAIN RawVulns :
            (/\ i < j
             /\ RawVulns[i].id = RawVulns[j].id
             /\ i = Least(PositionsOf(RawVulns[i].id))
             /\ PositionsOf(RawVulns[i].id) = {i, j}
             /\ PassesFilter(i)
             /\ PassesFilter(j)
             /\ RawVulns[i].severity = <<>>
             /\ SuppliedSeverity(j) # "Unknown")
            => /\ Cardinality(ReturnedWith(RawVulns[i].id)) = 1
               /\ \A k \in ReturnedWith(RawVulns[i].id) :
                     /\ Returned[k].severity = SuppliedSeverity(j)
                     /\ Returned[k].summary = RawVulns[i].summary
                     /\ Returned[k].details = RawVulns[i].details

(***************************************************************************)
(* C15.  The affected-range filter is applied only when the caller         *)
(* supplied a version: then every returned record's affected ranges        *)
(* include that version according to is_version_affected; when the caller  *)
(* supplied none the filter is skipped and no record of the response is    *)
(* dropped because of its ranges, so every id of the response comes back.  *)
(***************************************************************************)
C15_FilterOnlyWhenSupplied ==
    ScanSucceeded =>
        /\ supplied_version # NoneValue =>
              \A k \in DOMAIN Returned :
                  IsVersionAffected(supplied_version, Returned[k].affected_versions)
        /\ supplied_version = NoneValue =>
              \A i \in DOMAIN RawVulns : ReturnedWith(RawVulns[i].id) # {}

\* As amended: the filter is applied with the version forward works with,
\* the one the caller supplied or else the one of the installed
\* distribution; then the ids returned are those of the raw records whose
\* ranges include it.  It is skipped when the caller supplied none and the
\* package is not installed, and then every id of the response comes back.
C15_FilterWhenVersionKnown ==
    ScanSucceeded =>
        /\ scan_result.version
               = (IF supplied_version # NoneValue THEN supplied_version
                  ELSE IF installed_version # Missing THEN installed_version
                  ELSE NoneValue)
        /\ scan_result.version # NoneValue =>
              /\ \A k \in DOMAIN Returned :
                    IsVersionAffected(scan_result.version, Returned[k].affected_versions)
              /\ \A i \in DOMAIN RawVulns :
                    ReturnedWith(RawVulns[i].id) # {}
                        <=> \E j \in PositionsOf(RawVulns[i].id) :
                                IsVersionAffected(
                                    scan_result.version,
                                    AffectedVersions(RawVulns[j].affected, ScannedPackage))
        /\ scan_result.version = NoneValue =>
              \A i \in DOMAIN RawVulns : ReturnedWith(RawVulns[i].id) # {}

\* no version was supplied, the installed one was used, and a record of
\* the response was dropped because of its ranges
C15_Witness ==
    /\ ScanSucceeded
    /\ supplied_version = NoneValue
    /\ installed_version # Missing
    /\ \E i \in DOMAIN RawVulns : ReturnedWith(RawVulns[i].id) = {}
    /\ Returned # <<>>

(***************************************************************************)
(* C16.  The returned list is in the order of the severity ranks           *)
(* CRITICAL 0, HIGH 1, MEDIUM 2, LOW 3, UNKNOWN 4, the severity read       *)
(* without regard to case, and two records of one rank keep the order in   *)
(* which their ids were first seen in the response.                        *)
(***************************************************************************)
SeverityRank(record) ==
    CASE record.severity = "CRITICAL" -> 0
      [] record.severity = "HIGH" -> 1
      [] record.severity = "MEDIUM" -> 2
      [] record.severity = "LOW" -> 3
      [] record.severity \in {"UNKNOWN", "Unknown"} -> 4

C16_SortedStableFirstSeen ==
    ScanSucceeded =>
        \A a, b \in DOMAIN Returned :
            a < b =>
                /\ SeverityRank(Returned[a]) <= SeverityRank(Returned[b])
                /\ SeverityRank(Returned[a]) = SeverityRank(Returned[b]) =>
                      Least(PositionsOf(Returned[a].id))
                          < Least(PositionsOf(Returned[b].id))

\* As amended: two records of one rank keep the order in which their ids
\* were first seen among the raw records that pass the version filter.
C16_SortedStableFirstKept ==
    ScanSucceeded =>
        \A a, b \in DOMAIN Returned :
            a < b =>
                /\ SeverityRank(Returned[a]) <= SeverityRank(Returned[b])
                /\ SeverityRank(Returned[a]) = SeverityRank(Returned[b]) =>
                      Least(PassingPositionsOf(Returned[a].id))
                          < Least(PassingPositionsOf(Returned[b].id))

\* a record was moved in front of one seen before it, and two records of
\* one rank came back
C16_Witness ==
    /\ ScanSucceeded
    /\ \E a, b \in DOMAIN Returned :
          /\ a < b
          /\ Least(PassingPositionsOf(Returned[b].id))
                 < Least(PassingPositionsOf(Returned[a].id))
    /\ Len(RawVulns) = 3

(***************************************************************************)
(* Reading a batch scan.                                                   *)
(***************************************************************************)
BatchResults == batch_response.results

BatchValue == batch_result.value

\* the entries of the results that have an input package at their index
Aligned == {i \in DOMAIN BatchResults : i <= Len(batch_packages)}

\* the version the package at index i is reported with
ResolvedAt(i) ==
    IF batch_packages[i].version # NoneValue THEN batch_packages[i].version
    ELSE IF lookups[i] = LookupFailed THEN NoneValue
    ELSE lookups[i]

\* the number of vulns in the entry at index i
VulnCount(i) ==
    IF "vulns" \in DOMAIN BatchResults[i] THEN Len(BatchResults[i].vulns) ELSE 0

RECURSIVE VulnTotal(_)
VulnTotal(n) == IF n = 0 THEN 0 ELSE VulnTotal(n - 1) + VulnCount(n)

\* the response came and every entry that has an input package is a dict
BatchProcessed ==
    /\ batch_result.returned
    /\ batch_response.status = "ok"
    /\ \A i \in Aligned : BatchResults[i] # NullEntry

(***************************************************************************)
(* C17.  PackageScanTool.forward never lets an exception out: when the     *)
(* POST, the status check or the decoding of the response fails, and when  *)
(* an entry cannot be processed after others were, it returns the empty    *)
(* list, with none of the results gathered before.                         *)
(***************************************************************************)
C17_BatchFailureGivesEmpty ==
    batch_result.returned =>
        /\ ~batch_result.raised
        /\ batch_response.status # "ok" => BatchValue = <<>>
        /\ (\E i \in Aligned : BatchResults[i] = NullEntry) => BatchValue = <<>>

\* the decoding of the response failed for a list of two packages
C17_Witness ==
    /\ batch_result.returned
    /\ batch_response.status = "decode"
    /\ Len(batch_packages) = 2

(***************************************************************************)
(* C18.  Results are attributed by position: each vulnerability of the     *)
(* entry at index i is reported once, with the name and the resolved       *)
(* version of the input package at index i; an entry with no vulns adds    *)
(* nothing; the entries beyond the inputs are ignored; the length of the   *)
(* output is the number of vulns in the entries that have an input.        *)
(***************************************************************************)
C18_PositionalAttribution ==
    BatchProcessed =>
        /\ Len(BatchValue) = VulnTotal(Cardinality(Aligned))
        /\ \A i \in Aligned :
              "vulns" \in DOMAIN BatchResults[i] =>
                  \A j \in DOMAIN BatchResults[i].vulns :
                      \E k \in DOMAIN BatchValue :
                          /\ BatchValue[k].vulnerability_id = BatchResults[i].vulns[j].id
                          /\ BatchValue[k].modified_date = BatchResults[i].vulns[j].modified
                          /\ BatchValue[k].package = batch_packages[i].name
                          /\ BatchValue[k].package_version = ResolvedAt(i)
        /\ \A k \in DOMAIN BatchValue :
              /\ BatchValue[k].vulnerability_id[2] \in Aligned
              /\ BatchValue[k].package
                     = batch_packages[BatchValue[k].vulnerability_id[2]].name

\* more entries than inputs, the entry beyond them with vulns, an entry
\* with none before it, and something reported
C18_Witness ==
    /\ BatchProcessed
    /\ Len(batch_packages) = 2
    /\ Len(BatchResults) = 3
    /\ VulnCount(3) > 0
    /\ VulnCount(1) = 0
    /\ BatchValue # <<>>

(***************************************************************************)
(* C19.  One call issues exactly one batch POST; its queries are one for   *)
(* each input package in the order of the input; a package whose           *)
(* latest-version lookup failed has its query sent without a version, and  *)
(* the batch goes on.                                                      *)
(***************************************************************************)
C19_OneBatchPost ==
    batch_result.returned =>
        /\ Len(posts) = 1
        /\ Len(posts[1].queries) = Len(batch_packages)
        /\ \A i \in DOMAIN batch_packages :
              /\ posts[1].queries[i].package.name = batch_packages[i].name
              /\ batch_packages[i].version # NoneValue =>
                    /\ "version" \in DOMAIN posts[1].queries[i]
                    /\ posts[1].queries[i].version = batch_packages[i].version
              /\ (batch_packages[i].version = NoneValue /\ lookups[i] = LookupFailed) =>
                    "version" \notin DOMAIN posts[1].queries[i]

\* the lookup failed for the first of two packages and the second was
\* reported all the same
C19_Witness ==
    /\ BatchProcessed
    /\ Len(batch_packages) = 2
    /\ batch_packages[1].version = NoneValue
    /\ lookups[1] = LookupFailed
    /\ \E k \in DOMAIN BatchValue : BatchValue[k].vulnerability_id[2] = 2

(***************************************************************************)
(* C20.  forward([]) returns the empty list whatever the batch endpoint    *)
(* does: a response of any content, a status error, a transport failure.   *)
(***************************************************************************)
C20_EmptyInputGivesEmpty ==
    (batch_result.returned /\ batch_packages = <<>>) =>
        /\ ~batch_result.raised
        /\ BatchValue = <<>>

\* no package was given and the response holds vulnerabilities
C20_Witness ==
    /\ batch_result.returned
    /\ batch_packages = <<>>
    /\ batch_response.status = "ok"
    /\ \E i \in DOMAIN BatchResults : VulnCount(i) > 0

(***************************************************************************)
(* C21.  A batch that failed can be told from a batch that succeeded and   *)
(* found nothing: what forward returns after a failure of the POST, of the *)
(* status check or of the decoding differs from what it returns for the    *)
(* same packages when every entry of the response is free of               *)
(* vulnerabilities.                                                        *)
(***************************************************************************)
\* the response in which each of the given packages has an entry without
\* vulnerabilities
CleanResponse ==
    [status |-> "ok", results |-> [i \in DOMAIN batch_packages |-> EntryWith(<<>>)]]

C21_FailureDistinguishable ==
    (batch_result.returned /\ batch_response.status # "ok") =>
        [raised |-> batch_result.raised, value |-> batch_result.value]
            # BatchForward(batch_packages, lookups, CleanResponse)

(***************************************************************************)
(* C28.  The result of is_version_affected does not depend on the order of *)
(* the range strings.  As claimed, this holds for every list, well-formed  *)
(* or not; it does hold for the lists in which every string is well-formed *)
(* or empty, and for a version that does not parse.                        *)
(***************************************************************************)
\* the lists that hold the strings of ranges in another order
Reorderings(ranges) ==
    {[i \in DOMAIN ranges |-> ranges[p[i]]] :
        p \in {q \in [DOMAIN ranges -> DOMAIN ranges] :
                  \A i, j \in DOMAIN ranges : q[i] = q[j] => i = j}}

SameInEveryOrder ==
    \A other \in Reorderings(scan_ranges) :
        IsVersionAffected(scan_version, other) = is_affected.value

\* no string of the list is one the parser rejects
AllParse(ranges) ==
    \A i \in DOMAIN ranges : WellFormed(ranges[i]) \/ ranges[i] = EmptyString

C28_OrderIndependent ==
    is_affected.returned => SameInEveryOrder

C28_OrderIndependentWhenParsed ==
    (is_affected.returned /\ (AllParse(scan_ranges) \/ ParseRaises(scan_version))) =>
        SameInEveryOrder

\* two different well-formed constraints of which the version meets only
\* the first, and the call said the version is affected
C28_Witness ==
    /\ is_affected.returned
    /\ is_affected.value
    /\ Len(scan_ranges) = 2
    /\ AllWellFormed(scan_ranges)
    /\ Satisfies(scan_version, scan_ranges[1])
    /\ ~Satisfies(scan_version, scan_ranges[2])

(***************************************************************************)
(* C30.  A call that names a version other than the installed one, or a    *)
(* version of a package that is not installed, returns a single node with  *)
(* the requested version and no dependencies, enumerates no requirements   *)
(* and leaves the visited set as it was.                                   *)
(***************************************************************************)
\* the root was requested in a version that is not the installed one
RequestedOtherVersion ==
    /\ root.version # NoneValue
    /\ installed[root.name] # root.version

C30_OtherVersionSingleNode ==
    (pc \in {"built", "extracted"} /\ RequestedOtherVersion) =>
        /\ dependency_tree =
              PackageNode(root.name, root.version, EmptyDict, <<>>)
        /\ enumerated = <<>>
        /\ visited = {}
        /\ requires = [p \in Pkgs |-> [asked |-> FALSE, reqs |-> <<>>]]

\* version 2.0 of the root was requested and 1.0 is installed
C30_Witness ==
    /\ pc = "built"
    /\ root.version = "2.0"
    /\ installed[root.name] = "1.0"

(***************************************************************************)
(* C27.  In all_packages the path of a package is the sequence of names    *)
(* from the root to the package's parent along declared requirements: the  *)
(* path of the root is empty, every other path starts with the root and    *)
(* ends with a package that requires the package, each name of a path      *)
(* requiring the next one.                                                 *)
(***************************************************************************)
\* the names of path follow declared requirements and lead to name
AlongRequirements(path, name) ==
    /\ \A i \in 1..(Len(path) - 1) : path[i + 1] \in RequiredNames(path[i])
    /\ name \in RequiredNames(path[Len(path)])

C27_PathsFromRoot ==
    pc = "extracted" =>
        \A k \in DictKeys(all_packages) :
            LET path == DictGet(all_packages, k).path IN
            IF k = root.name THEN path = <<>>
            ELSE /\ path # <<>>
                 /\ path[1] = root.name
                 /\ AlongRequirements(path, k)

(***************************************************************************)
(* Reading an analysis: what the scanner was asked and what it answered.   *)
(***************************************************************************)
Analysed == pc = "analysed"

Rendered == Analysed /\ report.kind = "report"

\* the scanner was invoked for the package
Invoked(name) == \E i \in DOMAIN scanned : scanned[i].name = name

\* the lookup of the package raised
LookupFailedFor(name) == Invoked(name) /\ scan_outcomes[name].raised

\* the list the lookup of the package returned (empty when it returned none)
LookupOf(name) ==
    IF Invoked(name) /\ ~scan_outcomes[name].raised
    THEN scan_outcomes[name].vulnerabilities
    ELSE <<>>

VersionOf(name) == DictGet(all_packages, name).version

VersionUnknown(name) == VersionOf(name) \in {"Not installed", "unknown"}

\* the sum of the numbers count gives to names
RECURSIVE SumOver(_, _)
SumOver(names, count) ==
    IF names = {} THEN 0
    ELSE LET n == CHOOSE m \in names : TRUE IN count[n] + SumOver(names \ {n}, count)

(***************************************************************************)
(* C22.  When the lookup of a package fails, the analysis and the report   *)
(* say that the package could not be checked: the analysis differs from    *)
(* the one made when the same lookups return empty lists, and the report   *)
(* does not carry the status "All dependencies appear secure".             *)
(***************************************************************************)
\* the scanner that finds nothing where scan_outcomes raises
WithoutFailures ==
    [p \in Pkgs |-> IF scan_outcomes[p].raised THEN Clean ELSE scan_outcomes[p]]

AnalysisWithoutFailures ==
    LET acc == ScanLoop(all_packages, WithoutFailures, LoopStart) IN
    AnalysisResult(dependency_tree, all_packages,
                   acc.vulnerable_dependencies, acc.vulnerability_count)

C22_FailedLookupsReported ==
    (Rendered /\ \E k \in DictKeys(all_packages) : LookupFailedFor(k)) =>
        /\ analysis # AnalysisWithoutFailures
        /\ report.status # "secure"

(***************************************************************************)
(* C23.  vulnerable_dependencies has a key for exactly the packages of     *)
(* all_packages whose lookup returned a non-empty list; the entry holds    *)
(* that list and its length; total_vulnerability_count is the sum of the   *)
(* lengths, total_dependencies the number of entries of all_packages and   *)
(* vulnerable_dependency_count the number of vulnerable entries.           *)
(***************************************************************************)
VulnerableCount(name) == DictGet(analysis.vulnerable_dependencies, name).vulnerability_count

C23_CountsAgree ==
    Analysed =>
        /\ DictKeys(analysis.vulnerable_dependencies) =
              {k \in DictKeys(all_packages) : LookupOf(k) # <<>>}
        /\ \A k \in DictKeys(analysis.vulnerable_dependencies) :
              /\ DictGet(analysis.vulnerable_dependencies, k).vulnerabilities = LookupOf(k)
              /\ VulnerableCount(k) = Len(LookupOf(k))
        /\ analysis.total_vulnerability_count =
              SumOver(DictKeys(analysis.vulnerable_dependencies),
                      [k \in DictKeys(analysis.vulnerable_dependencies) |-> VulnerableCount(k)])
        /\ analysis.total_dependencies = Cardinality(DictKeys(all_packages))
        /\ analysis.vulnerable_dependency_count =
              Cardinality(DictKeys(analysis.vulnerable_dependencies))

\* three packages, two findings for one of them, one for another and a
\* failed lookup for the third
C23_Witness ==
    /\ Analysed
    /\ Cardinality(DictKeys(all_packages)) = 3
    /\ Cardinality(DictKeys(analysis.vulnerable_dependencies)) = 2
    /\ analysis.total_vulnerability_count = 3
    /\ \E k \in DictKeys(all_packages) : LookupFailedFor(k)

(***************************************************************************)
(* C25.  A requires B only and B requires nothing, both are installed, the *)
(* scanner has one HIGH finding for B and none for A: the analysis counts  *)
(* 2 dependencies, 1 vulnerable dependency and 1 vulnerability, the path   *)
(* of B is [A] and the status rendered is the high one.                    *)
(***************************************************************************)
OneRequirementChain ==
    /\ root.name = "A"
    /\ installed["A"] = "1.0" /\ installed["B"] = "1.0"
    /\ root.version \in {NoneValue, "1.0"}
    /\ requires["A"].asked /\ Len(requires["A"].reqs) = 1
    /\ requires["A"].reqs[1].name = "B"
    /\ requires["B"].asked /\ requires["B"].reqs = <<>>
    /\ failures = {}
    /\ scan_outcomes["A"] = Clean
    /\ scan_outcomes["B"] = Found("B", 1)

C25_ChainEndToEnd ==
    (Rendered /\ OneRequirementChain) =>
        /\ analysis.total_dependencies = 2
        /\ analysis.vulnerable_dependency_count = 1
        /\ analysis.total_vulnerability_count = 1
        /\ DictKeys(analysis.vulnerable_dependencies) = {"B"}
        /\ DictGet(analysis.vulnerable_dependencies, "B").path = <<"A">>
        /\ DictGet(analysis.vulnerable_dependencies, "B").vulnerabilities[1].severity = "HIGH"
        /\ report.status = "high"

C25_Witness == Rendered /\ OneRequirementChain

(***************************************************************************)
(* C29.  The scanner is never invoked for a package whose version is 'Not  *)
(* installed' or 'unknown'; such a package is no vulnerable dependency and *)
(* adds nothing to total_vulnerability_count, and it is counted in         *)
(* total_dependencies.                                                     *)
(***************************************************************************)
FoundFor(name) == Len(LookupOf(name))

C29_UnresolvedNotScanned ==
    Analysed =>
        /\ \A k \in DictKeys(all_packages) :
              VersionUnknown(k) =>
                 /\ ~Invoked(k)
                 /\ k \notin DictKeys(analysis.vulnerable_dependencies)
        /\ analysis.total_vulnerability_count =
              SumOver({k \in DictKeys(all_packages) : ~VersionUnknown(k)},
                      [k \in DictKeys(all_packages) |-> FoundFor(k)])
        /\ analysis.total_dependencies = Cardinality(DictKeys(all_packages))

\* B is required and not installed, and the scanner has a finding for B
C29_Witness ==
    /\ Analysed
    /\ "B" \in DictKeys(all_packages)
    /\ VersionOf("B") = "Not installed"
    /\ scan_outcomes["B"] = Found("B", 1)
    /\ analysis.total_dependencies = 2

(***************************************************************************)
(* C24.  The status rendered depends only on the two counts: the secure    *)
(* one when no dependency is vulnerable, also with no dependency at all;   *)
(* the low one for 0 < ratio <= 0.1, the medium one for 0.1 < ratio <= 0.3 *)
(* and the high one for ratio > 0.3; the quotient is never taken with      *)
(* total_dependencies = 0.                                                 *)
(***************************************************************************)
\* the status the claim gives to a number of vulnerable dependencies out
\* of a total, the ratios being compared in tenths
ClaimedStatus(total, vulnerable) ==
    CASE vulnerable = 0 -> "secure"
      [] vulnerable > 0 /\ 10 * vulnerable <= total -> "low"
      [] total < 10 * vulnerable /\ 10 * vulnerable <= 3 * total -> "medium"
      [] 3 * total < 10 * vulnerable -> "high"

C24_StatusBands ==
    (report.kind # "none" /\ "error" \notin DOMAIN analysis) =>
        /\ report.kind = "report"
        /\ report.status = ClaimedStatus(analysis.total_dependencies,
                                         analysis.vulnerable_dependency_count)

\* one vulnerable dependency out of ten: the ratio is 0.1 and the status low
C24_Witness ==
    /\ report.kind = "report"
    /\ analysis.total_dependencies = 10
    /\ analysis.vulnerable_dependency_count = 1
    /\ report.status = "low"

(***************************************************************************)
(* C26.  Tree construction is idempotent and isolated: a top-level call    *)
(* starts from its own empty visited set; a second call on the same root   *)
(* over the same universe, made after the first or while the first is      *)
(* running, returns the tree the first returns; and the second analysis    *)
(* has the counts of the first.                                            *)
(***************************************************************************)
Counts(an) ==
    <<an.total_dependencies, an.vulnerable_dependency_count, an.total_vulnerability_count>>

C26_CallsIsolated ==
    /\ (pc = "building" /\ Len(stack) = 1 /\ Top.phase = "enter") => visited = {}
    /\ (second_call = "sequential" /\ pc \in {"built", "extracted", "analysed"}) =>
          dependency_tree = other_call.tree
    /\ (second_call = "sequential" /\ pc = "analysed") =>
          /\ Counts(analysis) = Counts(other_call.analysis)
          /\ analysis.vulnerable_dependencies = other_call.analysis.vulnerable_dependencies
    /\ (second_call = "resumed" /\ pc = "built") =>
          dependency_tree = other_call.tree

\* the second of two calls made one after the other has analysed a tree of
\* three packages in which the root is required again
C26_Witness ==
    /\ second_call = "sequential"
    /\ pc = "analysed"
    /\ analysis.total_dependencies = 3
    /\ \E c \in calls : c.name = root.name
    /\ analysis.total_vulnerability_count = 3

====
